---------------------------- MODULE Spec2Model ----------------------------
(***************************************************************************)
(* Validation and liveness-checking engine of sgb-data-validator           *)
(* (src/validate.py, class OmekaValidator, with the schema of              *)
(* src/src/models.py).                                                     *)
(*                                                                         *)
(* The state is the validator object: its configuration, its diagnostic    *)
(* lists, its counters, the bounded LRU cache of URI results and the two   *)
(* identifier maps; together with the coroutines of the asyncio.gather     *)
(* that is running (one check_uri_async per extracted URI) and the         *)
(* requests the HTTP transport has received.                               *)
(***************************************************************************)
EXTENDS Integers, Sequences, FiniteSets, TLC

VARIABLES
    check_uris,          \* self.check_uris
    check_redirects,     \* self.check_redirects
    uri_check_severity,  \* self.uri_check_severity
    uri_cache_max_size,  \* self.uri_cache_max_size
    errors,              \* self.errors, in append order
    warnings,            \* self.warnings, in append order
    validated_items,     \* self.validated_items
    validated_media,     \* self.validated_media
    checked_uris,        \* self.checked_uris
    failed_uris,         \* self.failed_uris
    uri_cache,           \* self.uri_cache, an OrderedDict: oldest entry first
    item_identifiers,    \* self.item_identifiers, a dict in insertion order
    media_identifiers,   \* self.media_identifiers, a dict in insertion order
    tasks,               \* the coroutines of the running asyncio.gather
    head_calls,          \* HEAD requests the transport has received
    get_calls,           \* GET requests the transport has received
    touched,             \* history: the URIs cached or hit, least recent first
    calls,               \* history: validate_* and finalize calls made so far
    run                  \* the running validate_item_set: its position

vars == <<check_uris, check_redirects, uri_check_severity, uri_cache_max_size,
          errors, warnings, validated_items, validated_media, checked_uris,
          failed_uris, uri_cache, item_identifiers, media_identifiers, tasks,
          head_calls, get_calls, touched, calls, run>>

config == <<check_uris, check_redirects, uri_check_severity, uri_cache_max_size>>
identifiers == <<item_identifiers, media_identifiers>>
counters == <<validated_items, validated_media, checked_uris, failed_uris>>
transport == <<head_calls, get_calls>>

(***************************************************************************)
(* Bounds of the model.                                                    *)
(***************************************************************************)
\* validate_item / validate_media calls of one session
MaxRecords == 3
\* validate_item / validate_media calls of one session of SpecLive
MaxLiveRecords == 2
\* validate_item / validate_media calls of one session of SpecBatch
MaxBatch == 4
\* _check_duplicate_identifiers calls of one session
MaxFinalize == 2
\* items of the item set of SpecItemSet
MaxSetItems == 2
\* validate_item calls of one session of SpecFixed
MaxFixedRecords == 2

(***************************************************************************)
(* Program constants.                                                      *)
(***************************************************************************)
DefaultCacheMaxSize == 10000
TestCacheMaxSize == 3
PreviewLen == 80

(***************************************************************************)
(* Python values.  None is the empty tuple and a value x that may be None  *)
(* is <<x>>.  A string that is used as a URL (a URI of a record, a         *)
(* Location header, and so the detail of a result, which also holds        *)
(* exception texts) is kept as the parts urlparse splits it into.          *)
(***************************************************************************)
None == <<>>
Some(x) == <<x>>
IsNone(o) == o = <<>>
The(o) == o[1]

Url(scheme, netloc, path) == [scheme |-> scheme, netloc |-> netloc, path |-> path]
\* the path is the tuple of its segments, "/a/b" being <<"", "a", "b">>;
\* a string without scheme and authority is a relative reference or plain text
Text(s) == Url("", "", <<s>>)
EmptyStr == Url("", "", <<>>)

\* Python truthiness of a str | None
Truthy(o) == ~IsNone(o) /\ The(o) # EmptyStr

\* o:id of a record: an integer, or the default "unknown" of data.get
IntId(n) == [n |-> n]
UnknownId == [s |-> "unknown"]

\* (status_code, redirect_location) of check_single_uri
Result(status, detail) == [status |-> status, detail |-> detail]

(***************************************************************************)
(* The bounded LRU cache: an OrderedDict, here the sequence of its items,  *)
(* oldest first.                                                           *)
(***************************************************************************)
CacheKeys(cache) == {cache[i].key : i \in 1..Len(cache)}
CacheKeySeq(cache) == [i \in 1..Len(cache) |-> cache[i].key]
CacheIndex(cache, uri) == CHOOSE i \in 1..Len(cache) : cache[i].key = uri
\* a lookup that returns the value of the oldest entry
CacheGetOldest(cache, uri) == cache[1].value
CacheGet(cache, uri) == cache[CacheIndex(cache, uri)].value
CacheDel(cache, uri) == SelectSeq(cache, LAMBDA e : e.key # uri)

\* a cache hit that exchanges the entry with the last one
move_to_end_swapped(cache, uri) ==
    LET i == CacheIndex(cache, uri)
        n == Len(cache)
    IN  [j \in 1..n |-> IF j = i THEN cache[n]
                        ELSE IF j = n THEN cache[i]
                        ELSE cache[j]]

\* a cache hit that leaves the entry where it is
move_to_end_skipped(cache, uri) == cache

\* OrderedDict.move_to_end(uri)
move_to_end(cache, uri) ==
    Append(CacheDel(cache, uri), cache[CacheIndex(cache, uri)])

\* dict.setdefault: an existing key keeps its position and its value
SetItem_setdefault(cache, uri, result) ==
    IF uri \in CacheKeys(cache)
    THEN cache
    ELSE Append(cache, [key |-> uri, value |-> result])

\* OrderedDict.__setitem__: an existing key keeps its position
SetItem(cache, uri, result) ==
    IF uri \in CacheKeys(cache)
    THEN [cache EXCEPT ![CacheIndex(cache, uri)].value = result]
    ELSE Append(cache, [key |-> uri, value |-> result])

\* OrderedDict.popitem(last=False)
popitem_first(cache) == Tail(cache)

\* _cache_uri_result evicting one entry too late
cache_uri_result_late(cache, max_size, uri, result) ==
    IF uri \in CacheKeys(cache)
    THEN move_to_end(SetItem(cache, uri, result), uri)
    ELSE LET added == SetItem(cache, uri, result)
         IN  IF Len(added) > max_size + 1 THEN popitem_first(added) ELSE added

\* _cache_uri_result that stores no HTTP error status
cache_uri_result_successes(cache, max_size, uri, result) ==
    IF result.status >= 400
    THEN cache
    ELSE IF uri \in CacheKeys(cache)
    THEN move_to_end(SetItem(cache, uri, result), uri)
    ELSE LET added == SetItem(cache, uri, result)
         IN  IF Len(added) > max_size THEN popitem_first(added) ELSE added

\* _cache_uri_result that stores the results of answered requests only
cache_uri_result_answered(cache, max_size, uri, result) ==
    IF result.status = -1
    THEN cache
    ELSE IF uri \in CacheKeys(cache)
    THEN move_to_end(SetItem(cache, uri, result), uri)
    ELSE LET added == SetItem(cache, uri, result)
         IN  IF Len(added) > max_size THEN popitem_first(added) ELSE added

\* OmekaValidator._cache_uri_result
cache_uri_result(cache, max_size, uri, result) ==
    IF uri \in CacheKeys(cache)
    THEN move_to_end(SetItem(cache, uri, result), uri)
    ELSE LET added == SetItem(cache, uri, result)
         IN  IF Len(added) > max_size THEN popitem_first(added) ELSE added

\* history of the cache's use: uri becomes the most recently used
Touch(hist, uri) == Append(SelectSeq(hist, LAMBDA u : u # uri), uri)

(***************************************************************************)
(* urllib.parse on the modelled strings.                                   *)
(***************************************************************************)
\* str.lower on the network locations of the model
lower(s) ==
    CASE s = "Example.com" -> "example.com"
      [] s = "EXAMPLE.COM" -> "example.com"
      [] OTHER -> s

\* str(uri).startswith(("http://", "https://"))
IsHttp(uri) == uri.scheme \in {"http", "https"}

\* urljoin(base, ref), without dot segments
urljoin(base, ref) ==
    IF ref.scheme # "" THEN ref
    ELSE IF ref.netloc # "" THEN Url(base.scheme, ref.netloc, ref.path)
    ELSE IF ref.path = <<>> THEN base
    ELSE IF ref.path[1] = "" THEN Url(base.scheme, base.netloc, ref.path)
    ELSE Url(base.scheme, base.netloc,
             (IF base.path = <<>> THEN <<"">>
              ELSE SubSeq(base.path, 1, Len(base.path) - 1)) \o ref.path)

RedirectStatuses == {301, 302, 303, 307, 308}
\* a fallback for 405 alone
HeadUnsupported_405 == {405}
HeadUnsupported == {405, 501}

(***************************************************************************)
(* Diagnostics.  A message is kept as its format and its arguments; the    *)
(* field of a diagnostic is the tuple of the parts of its path.            *)
(***************************************************************************)
DataValidationError(resource_type, resource_id, field, error) ==
    [resource_type |-> resource_type, resource_id |-> resource_id,
     field |-> field, error |-> error]

DataValidationWarning(resource_type, resource_id, message) ==
    [resource_type |-> resource_type, resource_id |-> resource_id,
     message |-> message]

\* f"{field}: {message}"
Prefixed(field, message) == [field |-> field, text |-> message]
\* a warning message without a field prefix
Plain(message) == [field |-> <<>>, text |-> message]

\* f"URI check failed: {uri} ({redirect_location})"
MsgCheckFailed(uri, detail) ==
    [kind |-> "URI check failed", uri |-> uri, detail |-> detail]
\* f"URI redirects to different domain: {uri} -> {absolute_redirect}"
MsgRedirect(uri, target) ==
    [kind |-> "URI redirects to different domain", uri |-> uri, target |-> target]
\* "No media/children found for this item"
MsgNoMedia == [kind |-> "No media/children found for this item"]
\* f"URI returned HTTP {status_code}: {uri}"
MsgHttp(status, uri) ==
    [kind |-> "URI returned HTTP", status |-> status, uri |-> uri]

(***************************************************************************)
(* check_uri_async, after check_single_uri returned: what the result of    *)
(* one URI adds to the diagnostics and to failed_uris.                     *)
(***************************************************************************)
\* the result is the sentinel of a network exception
IsException(result) == result.status = -1

\* a comparison of the schemes instead of the network locations
IsCrossDomain_scheme(uri, result) ==
    /\ result.status \in RedirectStatuses
    /\ Truthy(result.detail)
    /\ uri.scheme # urljoin(uri, The(result.detail)).scheme

\* the redirect goes to another network location
IsCrossDomain(uri, result) ==
    /\ result.status \in RedirectStatuses
    /\ Truthy(result.detail)
    /\ lower(uri.netloc) # lower(urljoin(uri, The(result.detail)).netloc)

\* the status counts as an HTTP error
IsHttpError(result) == result.status >= 400

\* a report that follows uri_check_severity alone
HttpErrorIsError_configured(status, severity) == severity = "error"

\* an HTTP error is reported as an Error (else as a Warning)
HttpErrorIsError(status, severity) == status = 404 \/ severity = "error"

\* the Errors one result appends, in order
ResultErrors(t, result, severity, redirects) ==
    IF IsException(result)
    THEN IF severity = "error"
         THEN <<DataValidationError(t.resource_type, t.resource_id, t.field,
                                    MsgCheckFailed(t.uri, result.detail))>>
         ELSE <<>>
    ELSE IF IsHttpError(result) /\ HttpErrorIsError(result.status, severity)
         THEN <<DataValidationError(t.resource_type, t.resource_id, t.field,
                                    MsgHttp(result.status, t.uri))>>
         ELSE <<>>

\* the Warnings one result appends, in order
ResultWarnings(t, result, severity, redirects) ==
    IF IsException(result)
    THEN IF severity = "error"
         THEN <<>>
         ELSE <<DataValidationWarning(t.resource_type, t.resource_id,
                    Prefixed(t.field, MsgCheckFailed(t.uri, result.detail)))>>
    ELSE (IF redirects /\ IsCrossDomain(t.uri, result)
          THEN <<DataValidationWarning(t.resource_type, t.resource_id,
                     Prefixed(t.field,
                         MsgRedirect(t.uri, urljoin(t.uri, The(result.detail)))))>>
          ELSE <<>>)
         \o
         (IF IsHttpError(result) /\ ~HttpErrorIsError(result.status, severity)
          THEN <<DataValidationWarning(t.resource_type, t.resource_id,
                     Prefixed(t.field, MsgHttp(result.status, t.uri)))>>
          ELSE <<>>)

\* a count of the HTTP errors alone
ResultFails_http(result) == IsHttpError(result)

\* whether one result counts as a failed URI
ResultFails(result) == IsException(result) \/ IsHttpError(result)

\* a tail that writes its diagnostics at the head of the lists
Classify_prepended(t, result) ==
    /\ errors' = ResultErrors(t, result, uri_check_severity, check_redirects)
           \o errors
    /\ warnings' = ResultWarnings(t, result, uri_check_severity, check_redirects)
           \o warnings
    /\ failed_uris' = failed_uris + (IF ResultFails(result) THEN 1 ELSE 0)

\* the tail of check_uri_async for task t, whose check returned result
Classify(t, result) ==
    /\ errors' = errors \o
           ResultErrors(t, result, uri_check_severity, check_redirects)
    /\ warnings' = warnings \o
           ResultWarnings(t, result, uri_check_severity, check_redirects)
    /\ failed_uris' = failed_uris + (IF ResultFails(result) THEN 1 ELSE 0)

(***************************************************************************)
(* Records: the dict of one Item or Media of the API.  keys is the set of  *)
(* its keys and nulls those whose value is None; the other fields hold     *)
(* the values of the keys the validator reads (meaningful when the key is  *)
(* present and not None).  props maps each dcterms key to its list of      *)
(* property dicts, a property being its "type", "@value" and "@id".        *)
(***************************************************************************)
Prop(type, value, id) == [type |-> type, value |-> value, id |-> id]
Literal(s) == Prop("literal", Some(s), None)
UriProp(u) == Prop("uri", None, Some(u))

\* the dcterms keys, in the order the API and the fixtures write them
KeyOrder ==
    <<"dcterms:identifier", "dcterms:title", "dcterms:subject",
      "dcterms:description", "dcterms:rights", "dcterms:license",
      "dcterms:creator", "dcterms:publisher", "dcterms:date",
      "dcterms:temporal", "dcterms:type", "dcterms:format",
      "dcterms:extent", "dcterms:source", "dcterms:language",
      "dcterms:relation", "dcterms:isPartOf">>
DctermsKeys == {KeyOrder[i] : i \in 1..Len(KeyOrder)}

\* data.get(key) is None
IsNull(data, key) == key \notin data.keys \/ key \in data.nulls

\* data.get(key, []) of a dcterms key, [] also standing for a None that the
\* isinstance(value, list) tests skip
PropsOf(data, key) == IF IsNull(data, key) THEN <<>> ELSE data.props[key]

\* f"{key}[{idx}]" and f"{key}[{idx}].@id", idx counting from 0
FieldIdx(key, i) == <<key, ToString(i - 1)>>
FieldIdxId(key, i) == <<key, ToString(i - 1), "@id">>

\* the flattening of a tuple of tuples
RECURSIVE Flatten(_)
Flatten(ss) == IF ss = <<>> THEN <<>> ELSE Head(ss) \o Flatten(Tail(ss))

\* OmekaValidator.extract_uris_from_data: the (field, uri) pairs
extract_uris_from_data(data) ==
    Flatten([k \in 1..Len(KeyOrder) |->
        LET key == KeyOrder[k]
            props == PropsOf(data, key)
        IN  Flatten([i \in 1..Len(props) |->
                IF Truthy(props[i].id)
                THEN <<[field |-> FieldIdxId(key, i), uri |-> The(props[i].id)]>>
                ELSE <<>>])])
    \o
    (IF ~IsNull(data, "o:original_url") /\ data.o_original_url # EmptyStr
     THEN <<[field |-> <<"o:original_url">>, uri |-> data.o_original_url]>>
     ELSE <<>>)

\* a test that misses the absent key
check_missing_field_null(data, field_name) == field_name \in data.nulls

\* OmekaValidator._check_missing_field
check_missing_field(data, field_name) ==
    IsNull(data, field_name) \/ data.props[field_name] = <<>>

\* a rule that asks for both thumbnails and media
check_thumbnail_or_media_either(data) ==
    LET thumbnails == data.thumbnail_display_urls
        has_thumbnails ==
            /\ ~IsNull(data, "thumbnail_display_urls")
            /\ \/ thumbnails.large # ""
               \/ thumbnails.medium # ""
               \/ thumbnails.small # ""
        has_media == ~IsNull(data, "o:media") /\ Len(data.o_media) > 0
    IN  ~has_thumbnails \/ ~has_media

\* OmekaValidator._check_thumbnail_or_media: both are missing
check_thumbnail_or_media(data) ==
    LET thumbnails == data.thumbnail_display_urls
        has_thumbnails ==
            /\ ~IsNull(data, "thumbnail_display_urls")
            /\ \/ thumbnails.large # ""
               \/ thumbnails.medium # ""
               \/ thumbnails.small # ""
        has_media == ~IsNull(data, "o:media") /\ Len(data.o_media) > 0
    IN  ~has_thumbnails /\ ~has_media

(***************************************************************************)
(* Strings of "@value": TLA+ strings, read character by character.         *)
(***************************************************************************)
CharAt(s, i) == SubSeq(s, i, i)
StartsWithAt(s, i, prefix) ==
    i + Len(prefix) - 1 <= Len(s) /\ SubSeq(s, i, i + Len(prefix) - 1) = prefix
StartsWith(s, prefix) == StartsWithAt(s, 1, prefix)

Digits == {"0", "1", "2", "3", "4", "5", "6", "7", "8", "9"}
UpperLetters ==
    {"A", "B", "C", "D", "E", "F", "G", "H", "I", "J", "K", "L", "M",
     "N", "O", "P", "Q", "R", "S", "T", "U", "V", "W", "X", "Y", "Z"}
Whitespace == {" "}

\* str.strip() == ""
IsBlank(s) == \A i \in 1..Len(s) : CharAt(s, i) \in Whitespace

\* the URL prefixes of url_pattern, as re.IGNORECASE reads them
UrlPrefixes ==
    {"http://", "HTTP://", "Http://", "https://", "HTTPS://", "Https://",
     "ftp://", "FTP://", "Ftp://", "www.", "WWW.", "Www."}

\* OmekaValidator._contains_url: re.search(r"(?:https?://|ftp://|www\.)[^\s]+")
contains_url(text) ==
    \E i \in 1..Len(text) : \E prefix \in UrlPrefixes :
        /\ StartsWithAt(text, i, prefix)
        /\ i + Len(prefix) <= Len(text)
        /\ CharAt(text, i + Len(prefix)) \notin Whitespace

(***************************************************************************)
(* VocabularyLoader: the terms of data/raw/vocabularies.json the model     *)
(* uses, and the membership predicates.  "Fruehe Neuzeit" stands for the   *)
(* era the fixtures write with an umlaut.                                  *)
(***************************************************************************)
Eras == {"Fruehe Neuzeit", "Mittelalter"}
MimeTypes == {"image/jpeg", "image/png"}
Licenses == {"https://creativecommons.org/publicdomain/mark/1.0/"}
Types == {Url("http", "purl.org", <<"", "dc", "dcmitype", "Image">>),
          Url("http", "purl.org", <<"", "dc", "dcmitype", "Dataset">>)}
Languages == {"de", "en", "fr"}
IconclassCodes == {"11H", "25F"}

is_valid_era(value) == value \in Eras
is_valid_mime_type(value) == value \in MimeTypes
is_valid_license(value) == value \in Licenses
is_valid_type(value) == value \in Types
is_valid_language(value) == value \in Languages

\* IconclassNotation.validate_notation_format
IconclassFormat(v) ==
    /\ ~IsBlank(v)
    /\ \A i \in 1..Len(v) :
           CharAt(v, i) \in Digits \cup UpperLetters \cup Whitespace
                                \cup {"q", "(", ")", "+", "."}

\* VocabularyLoader.is_valid_iconclass, for notations without parentheses
is_valid_iconclass(value) ==
    IconclassFormat(value) /\ \E code \in IconclassCodes : StartsWith(value, code)

(***************************************************************************)
(* The checks of one structurally valid record.  Each operator is the      *)
(* tuple of the diagnostics the method appends, in order.                  *)
(***************************************************************************)
MsgVocab(kind, value) == [kind |-> kind, value |-> value]
MsgVocabUri(kind, uri) == [kind |-> kind, uri |-> uri]
MsgRequired == [kind |-> "Field is required"]
MsgMissing(what) == [kind |-> "Missing", what |-> what]
MsgLiteralUrl(display_value) ==
    [kind |-> "Literal field contains URL", display_value |-> display_value]

\* one loop of _validate_vocabularies over the "@value" of a field
VocabLoop(data, resource_type, resource_id, key, Valid(_), kind) ==
    LET props == PropsOf(data, key)
    IN  Flatten([i \in 1..Len(props) |->
            LET value == props[i].value
            IN  IF ~IsNone(value) /\ The(value) # "" /\ ~Valid(The(value))
                THEN <<DataValidationError(resource_type, resource_id,
                           FieldIdx(key, i), MsgVocab(kind, The(value)))>>
                ELSE <<>>])

\* the loop over the "@id" of dcterms:type
TypeLoop(data, resource_type, resource_id) ==
    LET props == PropsOf(data, "dcterms:type")
    IN  Flatten([i \in 1..Len(props) |->
            LET value == props[i].id
            IN  IF Truthy(value) /\ ~is_valid_type(The(value))
                THEN <<DataValidationError(resource_type, resource_id,
                           FieldIdx("dcterms:type", i),
                           MsgVocabUri("Invalid type URI", The(value)))>>
                ELSE <<>>])

\* a subject that is always looked up
SubjectOk_always(value) == is_valid_iconclass(value)

\* the subject is looked up only if it starts with a digit
SubjectOk(value) == ~(Head(value) \in Digits) \/ is_valid_iconclass(value)

\* OmekaValidator._validate_vocabularies
validate_vocabularies(data, resource_type, resource_id) ==
    VocabLoop(data, resource_type, resource_id, "dcterms:temporal",
              is_valid_era, "Value must be from Era vocabulary")
    \o VocabLoop(data, resource_type, resource_id, "dcterms:format",
                 is_valid_mime_type, "Value must be from MIME type vocabulary")
    \o VocabLoop(data, resource_type, resource_id, "dcterms:license",
                 is_valid_license, "Invalid license URI")
    \o TypeLoop(data, resource_type, resource_id)
    \o VocabLoop(data, resource_type, resource_id, "dcterms:language",
                 is_valid_language, "Invalid language code")
    \o VocabLoop(data, resource_type, resource_id, "dcterms:subject",
                 SubjectOk, "Invalid Iconclass code")

\* not data.get("o:title")
TitleMissing(data) == IsNull(data, "o:title") \/ data.o_title = ""

\* the presence tables of issue #16
ItemRequired == <<"dcterms:identifier", "dcterms:description", "dcterms:temporal">>
ItemRecommended == <<"dcterms:language", "dcterms:isPartOf">>
MediaRequired ==
    <<"dcterms:identifier", "dcterms:description", "dcterms:rights",
      "dcterms:license">>
MediaRecommended ==
    <<"dcterms:creator", "dcterms:publisher", "dcterms:temporal",
      "dcterms:type", "dcterms:format", "dcterms:extent", "dcterms:source",
      "dcterms:language">>

\* the "Field is required" Errors of a record
RequiredErrors(data, resource_type, resource_id, required) ==
    (IF TitleMissing(data)
     THEN <<DataValidationError(resource_type, resource_id, <<"o:title">>,
                                MsgRequired)>>
     ELSE <<>>)
    \o Flatten([i \in 1..Len(required) |->
           IF check_missing_field(data, required[i])
           THEN <<DataValidationError(resource_type, resource_id,
                                      <<required[i]>>, MsgRequired)>>
           ELSE <<>>])

\* the Warning of the thumbnails-or-media rule
ThumbnailWarning(data, resource_type, resource_id) ==
    IF check_thumbnail_or_media(data)
    THEN <<DataValidationWarning(resource_type, resource_id,
               Plain(MsgMissing("thumbnails (large, medium, small) or media")))>>
    ELSE <<>>

\* the "Missing <field>" Warnings of a record
RecommendedWarnings(data, resource_type, resource_id, recommended) ==
    Flatten([i \in 1..Len(recommended) |->
        IF check_missing_field(data, recommended[i])
        THEN <<DataValidationWarning(resource_type, resource_id,
                   Plain(MsgMissing(recommended[i])))>>
        ELSE <<>>])

\* media: o:resource_template is missing, or has neither "@id" nor "o:id"
TemplateMissing(data) ==
    \/ IsNull(data, "o:resource_template")
    \/ /\ data.o_resource_template.id = ""
       /\ data.o_resource_template.o_id = 0

\* OmekaValidator._validate_item_additional_checks
item_additional_errors(data, item_id) ==
    RequiredErrors(data, "Item", item_id, ItemRequired)
item_additional_warnings(data, item_id) ==
    ThumbnailWarning(data, "Item", item_id)
    \o RecommendedWarnings(data, "Item", item_id, ItemRecommended)

\* OmekaValidator._validate_media_additional_checks
media_additional_errors(data, media_id) ==
    RequiredErrors(data, "Media", media_id, MediaRequired)
media_additional_warnings(data, media_id) ==
    (IF TemplateMissing(data)
     THEN <<DataValidationWarning("Media", media_id,
                Plain(MsgMissing("o:resource_template (@id and o:id)")))>>
     ELSE <<>>)
    \o ThumbnailWarning(data, "Media", media_id)
    \o RecommendedWarnings(data, "Media", media_id, MediaRecommended)

\* the whole value
DisplayValue_whole(field_value) == field_value

\* field_value[:80], with "..." when the value is longer
DisplayValue(field_value) ==
    IF Len(field_value) > PreviewLen
    THEN SubSeq(field_value, 1, PreviewLen) \o "..."
    ELSE field_value

\* a scan of the entries of every type
check_literal_fields_for_urls_any(data, resource_type, resource_id) ==
    Flatten([k \in 1..Len(KeyOrder) |->
        LET key == KeyOrder[k]
            props == PropsOf(data, key)
        IN  Flatten([i \in 1..Len(props) |->
                IF /\ ~IsNone(props[i].value)
                   /\ contains_url(The(props[i].value))
                THEN <<DataValidationWarning(resource_type, resource_id,
                           Prefixed(FieldIdx(key, i),
                               MsgLiteralUrl(DisplayValue(The(props[i].value)))))>>
                ELSE <<>>])])

\* OmekaValidator._check_literal_fields_for_urls
check_literal_fields_for_urls(data, resource_type, resource_id) ==
    Flatten([k \in 1..Len(KeyOrder) |->
        LET key == KeyOrder[k]
            props == PropsOf(data, key)
        IN  Flatten([i \in 1..Len(props) |->
                IF /\ props[i].type = "literal"
                   /\ ~IsNone(props[i].value)
                   /\ contains_url(The(props[i].value))
                THEN <<DataValidationWarning(resource_type, resource_id,
                           Prefixed(FieldIdx(key, i),
                               MsgLiteralUrl(DisplayValue(The(props[i].value)))))>>
                ELSE <<>>])])

(***************************************************************************)
(* The schema (src/src/models.py).  model_validate raises ValidationError  *)
(* with one entry per violation, in the order of the model's fields; here  *)
(* the tuple of these entries, empty when the record is valid.  The        *)
(* records of the model give every present key a value of the right type,  *)
(* so a violation is a missing or None key, or a value a validator         *)
(* rejects.                                                                *)
(***************************************************************************)
Violation(loc, msg) == [loc |-> loc, msg |-> msg]

\* the fields of class Item, by alias, in declaration order
ItemFields ==
    <<"@context", "@id", "@type", "o:id", "o:is_public", "o:owner",
      "o:resource_class", "o:resource_template", "o:thumbnail", "o:title",
      "thumbnail_display_urls", "o:created", "o:modified", "o:media",
      "o:item_set", "o:site", "dcterms:identifier", "dcterms:title",
      "dcterms:subject", "dcterms:description", "dcterms:temporal",
      "dcterms:language", "dcterms:isPartOf">>

\* the fields of class Media, by alias, in declaration order
MediaFields ==
    <<"@context", "@id", "@type", "o:id", "o:is_public", "o:owner",
      "o:resource_class", "o:resource_template", "o:thumbnail", "o:title",
      "thumbnail_display_urls", "o:created", "o:modified", "o:ingester",
      "o:renderer", "o:item", "o:source", "o:media_type", "o:sha256",
      "o:size", "o:filename", "o:lang", "o:alt_text", "o:original_url",
      "o:thumbnail_urls", "data", "dcterms:identifier", "dcterms:title",
      "dcterms:subject", "dcterms:description", "dcterms:creator",
      "dcterms:publisher", "dcterms:date", "dcterms:temporal",
      "dcterms:type", "dcterms:format", "dcterms:extent", "dcterms:source",
      "dcterms:language", "dcterms:relation", "dcterms:rights",
      "dcterms:license">>

\* fields without a default: the key must be there
NoDefault ==
    {"@context", "@id", "@type", "o:id", "o:is_public", "o:title",
     "o:created", "o:modified", "o:ingester", "o:renderer", "o:item",
     "o:media_type", "dcterms:title"}
\* fields whose type does not admit None
NotOptional == NoDefault \cup {"o:media", "o:item_set", "o:site", "data"}

\* OmekaProperty.value_not_empty, over the properties of one list
PropViolations(data, key) ==
    LET props == data.props[key]
    IN  Flatten([i \in 1..Len(props) |->
            IF ~IsNone(props[i].value) /\ IsBlank(The(props[i].value))
            THEN <<Violation(<<key, ToString(i - 1), "@value">>,
                             "Value error, Value cannot be empty")>>
            ELSE <<>>])

\* the violations of one field
FieldViolations(data, key) ==
    IF key \notin data.keys
    THEN IF key \in NoDefault
         THEN <<Violation(<<key>>, "Field required")>>
         ELSE <<>>
    ELSE IF key \in data.nulls
    THEN IF key \in NotOptional
         THEN <<Violation(<<key>>, "Input should be a valid value")>>
         ELSE <<>>
    ELSE IF key = "o:title"
    THEN IF IsBlank(data.o_title)
         THEN <<Violation(<<key>>, "Value error, Title cannot be empty")>>
         ELSE <<>>
    ELSE IF key = "o:media_type"
    THEN IF IsBlank(data.o_media_type)
         THEN <<Violation(<<key>>, "Value error, Media type cannot be empty")>>
         ELSE <<>>
    ELSE IF key = "o:original_url"
    THEN IF data.o_original_url # EmptyStr /\ ~IsHttp(data.o_original_url)
         THEN <<Violation(<<key>>,
                    "Value error, URL must start with http:// or https://")>>
         ELSE <<>>
    ELSE IF key \in DctermsKeys
    THEN IF PropViolations(data, key) # <<>>
         THEN PropViolations(data, key)
         ELSE IF key = "dcterms:title" /\ data.props[key] = <<>>
         THEN <<Violation(<<key>>, "Value error, dcterms:title is required")>>
         ELSE <<>>
    ELSE <<>>

\* Item.model_validate / Media.model_validate: e.errors()
model_validate(fields, data) ==
    Flatten([i \in 1..Len(fields) |-> FieldViolations(data, fields[i])])

\* a translation of the first violation only
SchemaErrors_first(violations, resource_type, resource_id) ==
    <<DataValidationError(resource_type, resource_id, violations[1].loc,
                          [kind |-> violations[1].msg])>>

\* the Errors validate_item / validate_media append for a ValidationError
SchemaErrors(violations, resource_type, resource_id) ==
    [i \in 1..Len(violations) |->
        DataValidationError(resource_type, resource_id, violations[i].loc,
                            [kind |-> violations[i].msg])]

\* data.get("o:id", "unknown")
IdOf(data) ==
    IF "o:id" \in data.keys THEN IntId(data.o_id) ELSE UnknownId

(***************************************************************************)
(* The identifier maps: a dict, here the tuple of its items in insertion   *)
(* order.                                                                  *)
(***************************************************************************)
IdentifierKeys(map) == {map[i].identifier : i \in 1..Len(map)}
IdsOf(map, identifier) ==
    map[CHOOSE i \in 1..Len(map) : map[i].identifier = identifier].ids

\* an extraction that finds no identifier in a record the schema rejects
extract_identifier_value_validated(data) ==
    IF /\ model_validate(ItemFields, data) # <<>>
       /\ model_validate(MediaFields, data) # <<>>
    THEN None
    ELSE IF PropsOf(data, "dcterms:identifier") # <<>>
    THEN data.props["dcterms:identifier"][1].value
    ELSE None

\* OmekaValidator._extract_identifier_value: a str, or None
extract_identifier_value(data) ==
    IF PropsOf(data, "dcterms:identifier") # <<>>
    THEN data.props["dcterms:identifier"][1].value
    ELSE None

\* setdefault(identifier, [id]).append(id): a new key lists the id twice
Register_twice(map, identifier_value, id) ==
    IF IsNone(identifier_value) \/ The(identifier_value) = ""
    THEN map
    ELSE IF The(identifier_value) \in IdentifierKeys(map)
    THEN [i \in 1..Len(map) |->
             IF map[i].identifier = The(identifier_value)
             THEN [map[i] EXCEPT !.ids = Append(@, id)]
             ELSE map[i]]
    ELSE Append(map, [identifier |-> The(identifier_value), ids |-> <<id, id>>])

\* validate_item / validate_media: track the identifier of the record
Register(map, identifier_value, id) ==
    IF IsNone(identifier_value) \/ The(identifier_value) = ""
    THEN map
    ELSE IF The(identifier_value) \in IdentifierKeys(map)
    THEN [i \in 1..Len(map) |->
             IF map[i].identifier = The(identifier_value)
             THEN [map[i] EXCEPT !.ids = Append(@, id)]
             ELSE map[i]]
    ELSE Append(map, [identifier |-> The(identifier_value), ids |-> <<id>>])

\* f"Duplicate identifier '{identifier}' found in items: {item_ids}"
MsgDuplicate(identifier, where, ids) ==
    [kind |-> "Duplicate identifier", identifier |-> identifier,
     where |-> where, ids |-> ids]

\* a loop that reports only the first record of each group
DuplicateErrors_first(map, resource_type, where) ==
    Flatten([i \in 1..Len(map) |->
        IF Len(map[i].ids) > 1
        THEN <<DataValidationError(resource_type, map[i].ids[1],
                   <<"dcterms:identifier">>,
                   MsgDuplicate(map[i].identifier, where, map[i].ids))>>
        ELSE <<>>])

\* one loop of _check_duplicate_identifiers
DuplicateErrors(map, resource_type, where) ==
    Flatten([i \in 1..Len(map) |->
        IF Len(map[i].ids) > 1
        THEN [j \in 1..Len(map[i].ids) |->
                 DataValidationError(resource_type, map[i].ids[j],
                     <<"dcterms:identifier">>,
                     MsgDuplicate(map[i].identifier, where, map[i].ids))]
        ELSE <<>>])

(***************************************************************************)
(* The HTTP transport: what a HEAD or GET request ends with.               *)
(***************************************************************************)
Response(status_code, location) ==
    [status_code |-> status_code, location |-> location]
\* httpx.RequestError / httpx.HTTPError, with str(e)
Raised(message) == [raised |-> "RequestError", message |-> message]
IsRaised(r) == "raised" \in DOMAIN r

\* a conversion that takes a raised exception for an answer
ResultOf_answered(r) ==
    IF IsRaised(r) THEN Result(200, None)
    ELSE Result(r.status_code, r.location)

\* the result of a request that ended with r
ResultOf(r) ==
    IF IsRaised(r) THEN Result(-1, Some(Text(r.message)))
    ELSE Result(r.status_code, r.location)

(***************************************************************************)
(* The coroutines of check_uris_for_resource: one check_uri_async per      *)
(* extracted URI.  pc is where the coroutine stands: "start" (created),    *)
(* "head" and "get" (awaiting the response), "exit" (check_single_uri has  *)
(* cached its result and leaves the client's context), "done".  replies   *)
(* is the history of what the transport answered to the coroutine.         *)
(***************************************************************************)
NoResult == Result(0, None)

NewTask(u, resource_type, resource_id) ==
    [uri |-> u.uri, field |-> u.field, resource_type |-> resource_type,
     resource_id |-> resource_id, pc |-> "start", result |-> NoResult,
     replies |-> <<>>]

Idle == tasks = <<>>
\* a wait that ends with the first coroutine to complete
AllDone_first == \E i \in 1..Len(tasks) : tasks[i].pc = "done"
AllDone == \A i \in 1..Len(tasks) : tasks[i].pc = "done"

\* a validation that checks the URIs whatever check_uris says
Validate_unchecked(data, resource_type, fields) ==
    LET id == IdOf(data)
        violations == model_validate(fields, data)
        uris == extract_uris_from_data(data)
        add_errors ==
            IF resource_type = "Item"
            THEN item_additional_errors(data, id)
            ELSE media_additional_errors(data, id)
        add_warnings ==
            IF resource_type = "Item"
            THEN item_additional_warnings(data, id)
            ELSE media_additional_warnings(data, id)
    IN  /\ Idle
        /\ calls' = [calls EXCEPT
               !.validate = @ + 1,
               !.records = Append(@, [resource_type |-> resource_type,
                                      data |-> data])]
        /\ IF resource_type = "Item"
           THEN /\ item_identifiers' =
                       Register(item_identifiers,
                                extract_identifier_value(data), id)
                /\ UNCHANGED media_identifiers
           ELSE /\ media_identifiers' =
                       Register(media_identifiers,
                                extract_identifier_value(data), id)
                /\ UNCHANGED item_identifiers
        /\ IF violations = <<>>
           THEN /\ IF resource_type = "Item"
                   THEN /\ validated_items' = validated_items + 1
                        /\ UNCHANGED validated_media
                   ELSE /\ validated_media' = validated_media + 1
                        /\ UNCHANGED validated_items
                /\ errors' = errors
                       \o validate_vocabularies(data, resource_type, id)
                       \o add_errors
                /\ warnings' = warnings
                       \o add_warnings
                       \o check_literal_fields_for_urls(data, resource_type, id)
                /\ tasks' = [i \in 1..Len(uris) |->
                                NewTask(uris[i], resource_type, id)]
           ELSE /\ errors' = errors \o SchemaErrors(violations, resource_type, id)
                /\ UNCHANGED <<warnings, validated_items, validated_media, tasks>>
        /\ UNCHANGED <<config, checked_uris, failed_uris, uri_cache,
                       transport, touched>>

(***************************************************************************)
(* Actions.                                                                *)
(***************************************************************************)
\* the body of validate_item and validate_media, up to the start of the
\* URI checks (asyncio.run enters the gather; its coroutines then step)
Validate(data, resource_type, fields) ==
    LET id == IdOf(data)
        violations == model_validate(fields, data)
        uris == extract_uris_from_data(data)
        add_errors ==
            IF resource_type = "Item"
            THEN item_additional_errors(data, id)
            ELSE media_additional_errors(data, id)
        add_warnings ==
            IF resource_type = "Item"
            THEN item_additional_warnings(data, id)
            ELSE media_additional_warnings(data, id)
    IN  /\ Idle
        /\ calls' = [calls EXCEPT
               !.validate = @ + 1,
               !.records = Append(@, [resource_type |-> resource_type,
                                      data |-> data])]
        /\ IF resource_type = "Item"
           THEN /\ item_identifiers' =
                       Register(item_identifiers,
                                extract_identifier_value(data), id)
                /\ UNCHANGED media_identifiers
           ELSE /\ media_identifiers' =
                       Register(media_identifiers,
                                extract_identifier_value(data), id)
                /\ UNCHANGED item_identifiers
        /\ IF violations = <<>>
           THEN /\ IF resource_type = "Item"
                   THEN /\ validated_items' = validated_items + 1
                        /\ UNCHANGED validated_media
                   ELSE /\ validated_media' = validated_media + 1
                        /\ UNCHANGED validated_items
                /\ errors' = errors
                       \o validate_vocabularies(data, resource_type, id)
                       \o add_errors
                /\ warnings' = warnings
                       \o add_warnings
                       \o check_literal_fields_for_urls(data, resource_type, id)
                /\ tasks' = IF check_uris
                            THEN [i \in 1..Len(uris) |->
                                     NewTask(uris[i], resource_type, id)]
                            ELSE <<>>
           ELSE /\ errors' = errors \o SchemaErrors(violations, resource_type, id)
                /\ UNCHANGED <<warnings, validated_items, validated_media, tasks>>
        /\ UNCHANGED <<config, checked_uris, failed_uris, uri_cache,
                       transport, touched>>

validate_item(item_data) == Validate(item_data, "Item", ItemFields)
validate_media(media_data) == Validate(media_data, "Media", MediaFields)

\* the event loop runs the coroutines' first steps in the order of creation
MayStart(i) ==
    /\ i \in 1..Len(tasks)
    /\ tasks[i].pc = "start"
    /\ \A j \in 1..(i - 1) : tasks[j].pc # "start"

\* check_uri_async up to its first suspension: the URI filter, the counter
\* and check_single_uri's cache lookup; on a hit the coroutine runs to its end
TaskStart(i) ==
    /\ MayStart(i)
    /\ LET t == tasks[i]
       IN  IF ~IsHttp(t.uri)
           THEN /\ tasks' = [tasks EXCEPT ![i].pc = "done"]
                /\ UNCHANGED <<errors, warnings, checked_uris, failed_uris,
                               uri_cache, transport, touched>>
           ELSE /\ checked_uris' = checked_uris + 1
                /\ IF t.uri \in CacheKeys(uri_cache)
                   THEN /\ uri_cache' = move_to_end(uri_cache, t.uri)
                        /\ touched' = Touch(touched, t.uri)
                        /\ tasks' = [tasks EXCEPT
                               ![i].pc = "done",
                               ![i].result = CacheGet(uri_cache', t.uri)]
                        /\ Classify(t, CacheGet(uri_cache', t.uri))
                        /\ UNCHANGED transport
                   ELSE /\ head_calls' = head_calls + 1
                        /\ tasks' = [tasks EXCEPT ![i].pc = "head"]
                        /\ UNCHANGED <<errors, warnings, failed_uris,
                                       uri_cache, get_calls, touched>>
    /\ UNCHANGED <<config, identifiers, validated_items, validated_media, calls>>
    /\ UNCHANGED run

\* check_single_uri stores its result and leaves for the end of the context
Store(i, r) ==
    /\ uri_cache' = cache_uri_result(uri_cache, uri_cache_max_size,
                                     tasks[i].uri, ResultOf(r))
    /\ touched' = Touch(touched, tasks[i].uri)
    /\ tasks' = [tasks EXCEPT ![i].pc = "exit", ![i].result = ResultOf(r),
                              ![i].replies = Append(@, r)]

\* client.head(uri) returns or raises
HeadReturns(i, r) ==
    /\ i \in 1..Len(tasks)
    /\ tasks[i].pc = "head"
    /\ IF ~IsRaised(r) /\ r.status_code \in HeadUnsupported
       THEN /\ get_calls' = get_calls + 1
            /\ tasks' = [tasks EXCEPT ![i].pc = "get",
                                      ![i].replies = Append(@, r)]
            /\ UNCHANGED <<uri_cache, touched, head_calls>>
       ELSE /\ Store(i, r)
            /\ UNCHANGED transport
    /\ UNCHANGED <<config, identifiers, counters, errors, warnings, calls>>
    /\ UNCHANGED run

\* client.get(uri) returns or raises
GetReturns(i, r) ==
    /\ i \in 1..Len(tasks)
    /\ tasks[i].pc = "get"
    /\ Store(i, r)
    /\ UNCHANGED <<config, identifiers, counters, errors, warnings,
                   transport, calls>>
    /\ UNCHANGED run

\* check_single_uri returns to check_uri_async, which classifies the result
TaskFinish(i) ==
    /\ i \in 1..Len(tasks)
    /\ tasks[i].pc = "exit"
    /\ Classify(tasks[i], tasks[i].result)
    /\ tasks' = [tasks EXCEPT ![i].pc = "done"]
    /\ UNCHANGED <<config, identifiers, validated_items, validated_media,
                   checked_uris, uri_cache, transport, touched, calls>>
    /\ UNCHANGED run

\* asyncio.gather has all its results: validate_item / validate_media returns
GatherReturns ==
    /\ ~Idle
    /\ AllDone
    /\ tasks' = <<>>
    /\ UNCHANGED <<config, identifiers, counters, errors, warnings, uri_cache,
                   transport, touched, calls>>
    /\ UNCHANGED run

\* a search that forgets the identifiers it has reported
check_duplicate_identifiers_clearing ==
    /\ Idle
    /\ calls.finalize < MaxFinalize
    /\ calls' = [calls EXCEPT !.finalize = @ + 1]
    /\ errors' = errors
           \o DuplicateErrors(item_identifiers, "Item", "items")
           \o DuplicateErrors(media_identifiers, "Media", "media")
    /\ item_identifiers' = <<>>
    /\ media_identifiers' = <<>>
    /\ UNCHANGED <<config, counters, warnings, uri_cache, tasks,
                   transport, touched>>

\* OmekaValidator._check_duplicate_identifiers
check_duplicate_identifiers ==
    /\ Idle
    /\ calls.finalize < MaxFinalize
    /\ calls' = [calls EXCEPT !.finalize = @ + 1]
    /\ errors' = errors
           \o DuplicateErrors(item_identifiers, "Item", "items")
           \o DuplicateErrors(media_identifiers, "Media", "media")
    /\ UNCHANGED <<config, identifiers, counters, warnings, uri_cache, tasks,
                   transport, touched>>

(***************************************************************************)
(* validate_item_set: the loop over the items of an item set and the media *)
(* of each item.  run.pc is the position of the call, run.items the items  *)
(* from the current one on, run.media the media of the current item still  *)
(* to validate, run.printed the number of "Could not fetch media" lines.   *)
(***************************************************************************)
NoRun == [pc |-> "idle", items |-> <<>>, media |-> <<>>, printed |-> 0]

\* a loop that returns after its last item
Advance_returns(r) ==
    [r EXCEPT !.pc = IF Len(r.items) > 1 THEN "item" ELSE "done",
              !.items = Tail(@), !.media = <<>>]

\* the position after the current item and its media
Advance(r) ==
    [r EXCEPT !.pc = IF Len(r.items) > 1 THEN "item" ELSE "finalize",
              !.items = Tail(@), !.media = <<>>]

\* items = self.fetch_items(item_set_id)
FetchItemsReturns(items) ==
    /\ run.pc = "idle"
    /\ run' = [run EXCEPT !.pc = IF items = <<>> THEN "finalize" ELSE "item",
                          !.items = items]
    /\ UNCHANGED <<config, identifiers, counters, errors, warnings, uri_cache,
                   tasks, transport, touched, calls>>

\* fetch_items raises (raise_for_status, a body that is not JSON): the
\* exception leaves validate_item_set
FetchItemsRaises ==
    /\ run.pc = "idle"
    /\ run' = [run EXCEPT !.pc = "raised"]
    /\ UNCHANGED <<config, identifiers, counters, errors, warnings, uri_cache,
                   tasks, transport, touched, calls>>

\* self.validate_item(item); item_id = item.get("o:id"); if item_id:
LoopValidateItem ==
    /\ run.pc = "item"
    /\ validate_item(run.items[1])
    /\ run' = IF "o:id" \in run.items[1].keys /\ run.items[1].o_id # 0
              THEN [run EXCEPT !.pc = "fetch"]
              ELSE Advance(run)

\* media_list = self.fetch_media(item_id), and the Warning for an empty list
FetchMediaReturns(media_list) ==
    /\ run.pc = "fetch"
    /\ Idle
    /\ IF media_list = <<>>
       THEN /\ warnings' = Append(warnings,
                   DataValidationWarning("Item", IntId(run.items[1].o_id),
                                         Plain(MsgNoMedia)))
            /\ run' = Advance(run)
       ELSE /\ run' = [run EXCEPT !.pc = "media", !.media = media_list]
            /\ UNCHANGED warnings
    /\ UNCHANGED <<config, identifiers, counters, errors, uri_cache, tasks,
                   transport, touched, calls>>

\* fetch_media raises: an httpx.HTTPError is caught and printed, any other
\* exception leaves validate_item_set
FetchMediaRaises(exception) ==
    /\ run.pc = "fetch"
    /\ Idle
    /\ run' = IF exception = "HTTPError"
              THEN [Advance(run) EXCEPT !.printed = @ + 1]
              ELSE [run EXCEPT !.pc = "raised"]
    /\ UNCHANGED <<config, identifiers, counters, errors, warnings, uri_cache,
                   tasks, transport, touched, calls>>

\* for media in media_list: self.validate_media(media)
LoopValidateMedia ==
    /\ run.pc = "media"
    /\ validate_media(run.media[1])
    /\ run' = IF Len(run.media) > 1
              THEN [run EXCEPT !.media = Tail(@)]
              ELSE Advance(run)

\* self._check_duplicate_identifiers(), after the loop
LoopFinalize ==
    /\ run.pc = "finalize"
    /\ check_duplicate_identifiers
    /\ run' = [run EXCEPT !.pc = "done"]

(***************************************************************************)
(* The records and the web of the model.                                   *)
(***************************************************************************)
NoProps == [key \in DctermsKeys |-> <<>>]

\* create_minimal_item(item_id) of test_issue16_validation.py
MinimalItem(item_id) ==
    [keys |-> {"@context", "@id", "@type", "o:id", "o:is_public", "o:owner",
               "o:resource_class", "o:resource_template", "o:thumbnail",
               "o:title", "thumbnail_display_urls", "o:created",
               "o:modified", "o:media", "o:item_set", "o:site",
               "dcterms:identifier", "dcterms:title", "dcterms:description",
               "dcterms:temporal", "dcterms:language", "dcterms:isPartOf"},
     nulls |-> {"o:resource_class", "o:resource_template", "o:thumbnail"},
     o_id |-> item_id,
     o_title |-> "Test Item",
     o_media_type |-> "",
     o_original_url |-> EmptyStr,
     thumbnail_display_urls |->
         [large |-> "https://example.com/large.jpg",
          medium |-> "https://example.com/medium.jpg",
          small |-> "https://example.com/small.jpg"],
     o_media |-> <<1>>,
     o_resource_template |-> [id |-> "", o_id |-> 0],
     props |->
         [NoProps EXCEPT
             !["dcterms:identifier"] = <<Literal("test123")>>,
             !["dcterms:title"] = <<Literal("Test Item")>>,
             !["dcterms:description"] = <<Literal("Test description")>>,
             !["dcterms:temporal"] =
                 <<Prop("customvocab:14", Some("Fruehe Neuzeit"), None)>>,
             !["dcterms:language"] =
                 <<Prop("valuesuggest:lc:iso6391", Some("de"), None)>>,
             !["dcterms:isPartOf"] = <<Literal("Test Collection")>>]]

\* create_minimal_media(media_id) of test_issue16_validation.py
MinimalMedia(media_id) ==
    [keys |-> {"@context", "@id", "@type", "o:id", "o:is_public", "o:owner",
               "o:resource_class", "o:resource_template", "o:thumbnail",
               "o:title", "thumbnail_display_urls", "o:created",
               "o:modified", "o:ingester", "o:renderer", "o:item",
               "o:source", "o:media_type", "o:sha256", "o:size",
               "o:filename", "o:lang", "o:alt_text", "o:original_url",
               "o:thumbnail_urls", "data",
               "dcterms:identifier", "dcterms:title", "dcterms:description",
               "dcterms:rights", "dcterms:license", "dcterms:creator",
               "dcterms:publisher", "dcterms:temporal", "dcterms:type",
               "dcterms:format", "dcterms:extent", "dcterms:source",
               "dcterms:language"},
     nulls |-> {"o:resource_class", "o:thumbnail", "o:lang"},
     o_id |-> media_id,
     o_title |-> "Test Media",
     o_media_type |-> "image/jpeg",
     o_original_url |-> Url("https", "example.com", <<"", "test.jpg">>),
     thumbnail_display_urls |->
         [large |-> "https://example.com/large.jpg",
          medium |-> "https://example.com/medium.jpg",
          small |-> "https://example.com/small.jpg"],
     o_media |-> <<>>,
     o_resource_template |->
         [id |-> "https://omeka.unibe.ch/api/resource_templates/1", o_id |-> 1],
     props |->
         [NoProps EXCEPT
             !["dcterms:identifier"] = <<Literal("test123")>>,
             !["dcterms:title"] = <<Literal("Test Media")>>,
             !["dcterms:description"] = <<Literal("Test description")>>,
             !["dcterms:rights"] = <<Literal("Test rights")>>,
             !["dcterms:license"] =
                 <<Prop("customvocab:16",
                        Some("https://creativecommons.org/publicdomain/mark/1.0/"),
                        None)>>,
             !["dcterms:creator"] = <<Literal("Test Creator")>>,
             !["dcterms:publisher"] = <<Literal("Test Publisher")>>,
             !["dcterms:temporal"] =
                 <<Prop("customvocab:14", Some("Fruehe Neuzeit"), None)>>,
             !["dcterms:type"] =
                 <<Prop("valuesuggestall:dc:types", None,
                        Some(Url("http", "purl.org",
                                 <<"", "dc", "dcmitype", "Image">>)))>>,
             !["dcterms:format"] =
                 <<Prop("customvocab:15", Some("image/jpeg"), None)>>,
             !["dcterms:extent"] = <<Literal("1920x1080")>>,
             !["dcterms:source"] =
                 <<Prop("uri", None,
                        Some(Url("https", "example.com", <<"", "source">>)))>>,
             !["dcterms:language"] =
                 <<Prop("valuesuggest:lc:iso6391", Some("de"), None)>>]]

\* del data[key]
Without(data, key) == [data EXCEPT !.keys = @ \ {key}]
\* data[key] = None
WithNull(data, key) ==
    [data EXCEPT !.keys = @ \cup {key}, !.nulls = @ \cup {key}]
\* data[key] = props, for a dcterms key
WithProps(data, key, props) ==
    [data EXCEPT !.keys = @ \cup {key}, !.nulls = @ \ {key},
                 !.props[key] = props]
\* data["dcterms:identifier"][0]["@value"] = value
WithIdentifier(data, value) ==
    WithProps(data, "dcterms:identifier", <<Literal(value)>>)
\* a record whose dcterms:relation refers to the given URIs
WithRelations(data, uris) ==
    WithProps(data, "dcterms:relation",
              [i \in 1..Len(uris) |-> UriProp(uris[i])])

\* the URIs of the tests, and others of the same site
Site(name) == Url("https", "example.com", <<"", name>>)
url1 == Site("url1")
url2 == Site("url2")
url3 == Site("url3")
url4 == Site("url4")
NotFoundUri == Site("notfound")
BrokenUri == Url("https", "broken.example.com", <<>>)
OldUri == Site("old")
MovedUri == Site("moved")
NoHeadUri == Site("nohead")
FlakyUri == Site("flaky")
MailUri == Url("mailto", "", <<"info@example.com">>)

\* client.head(uri): how the web of the model answers a HEAD request
HeadAnswers(uri) ==
    CASE uri = NotFoundUri -> {Response(404, None)}
      [] uri = BrokenUri -> {Raised("Connection failed")}
      [] uri = OldUri ->
            {Response(301, Some(Site("new-location"))),
             Response(302, Some(Text("new-location"))),
             Response(307, Some(Url("https", "example.com:443",
                                    <<"", "new-location">>)))}
      [] uri = MovedUri ->
            {Response(301, Some(Url("https", "other.org", <<"", "moved">>))),
             Response(303, Some(Url("http", "other.org", <<"", "moved">>))),
             Response(308, Some(Url("", "Example.com", <<"", "moved">>)))}
      [] uri = NoHeadUri -> {Response(405, None), Response(501, None)}
      [] uri = FlakyUri -> {Response(200, None), Response(503, None)}
      [] OTHER -> {Response(200, None)}

\* client.get(uri): how the web of the model answers a GET request
GetAnswers(uri) ==
    CASE uri = NoHeadUri ->
            {Response(200, None), Response(405, None), Raised("Read timeout")}
      [] OTHER -> {Response(200, None)}

(***************************************************************************)
(* The session of a validator.                                             *)
(***************************************************************************)
\* OmekaValidator.__init__, and the options and the cache size the caller
\* sets before the first record
InitWith(uris, redirects, severities, max_sizes) ==
    /\ check_uris \in uris
    /\ check_redirects \in redirects
    /\ uri_check_severity \in severities
    /\ uri_cache_max_size \in max_sizes
    /\ errors = <<>>
    /\ warnings = <<>>
    /\ validated_items = 0
    /\ validated_media = 0
    /\ checked_uris = 0
    /\ failed_uris = 0
    /\ uri_cache = <<>>
    /\ item_identifiers = <<>>
    /\ media_identifiers = <<>>
    /\ tasks = <<>>
    /\ head_calls = 0
    /\ get_calls = 0
    /\ touched = <<>>
    /\ calls = [validate |-> 0, finalize |-> 0, records |-> <<>>]
    /\ run = NoRun

\* the steps of the coroutines of the running gather
CheckSteps ==
    \/ \E i \in 1..Len(tasks) : TaskStart(i)
    \/ \E i \in 1..Len(tasks) : \E r \in HeadAnswers(tasks[i].uri) :
           HeadReturns(i, r)
    \/ \E i \in 1..Len(tasks) : \E r \in GetAnswers(tasks[i].uri) :
           GetReturns(i, r)
    \/ \E i \in 1..Len(tasks) : TaskFinish(i)
    \/ GatherReturns

(***************************************************************************)
(* SpecUri: a session that checks URIs, with the options of __init__ and   *)
(* the cache size of test_lru_cache.py.                                    *)
(***************************************************************************)
UriItems ==
    {WithRelations(MinimalItem(1), <<url1, url2>>),
     WithRelations(MinimalItem(2), <<url3, url1>>),
     WithRelations(MinimalItem(3), <<url4, OldUri>>),
     WithRelations(MinimalItem(4), <<NotFoundUri, BrokenUri>>),
     WithRelations(MinimalItem(5), <<FlakyUri, url4, FlakyUri>>),
     WithRelations(MinimalItem(6), <<NoHeadUri, MailUri>>)}

InitUri == InitWith({TRUE}, {FALSE}, {"warning"}, {TestCacheMaxSize})

NextUri ==
    \/ \E data \in UriItems : calls.validate < MaxRecords /\ validate_item(data) /\ UNCHANGED run
    \/ CheckSteps

SpecUri == InitUri /\ [][NextUri]_vars

(***************************************************************************)
(* SpecLive: sessions that check URIs, under every severity and with and   *)
(* without the redirect check, with the default cache size.                *)
(***************************************************************************)
\* a media whose only URIs are those of dcterms:source and o:original_url
MediaWith(media_id, source, original_url) ==
    [WithProps(MinimalMedia(media_id), "dcterms:source", <<UriProp(source)>>)
        EXCEPT !.o_original_url = original_url,
               !.props["dcterms:type"] = <<Literal("Image")>>]

\* Item 2 has an unknown era, a URL in a literal and no language, and two
\* URIs, one of which answers 404
LiveItems ==
    {Without(
        WithProps(
            WithProps(WithRelations(MinimalItem(2), <<FlakyUri, NotFoundUri>>),
                      "dcterms:temporal",
                      <<Prop("customvocab:14", Some("Zukunft"), None)>>),
            "dcterms:description",
            <<Literal("see https://example.com/old")>>),
        "dcterms:language"),
     WithRelations(MinimalItem(3), <<NotFoundUri>>),
     WithRelations(MinimalItem(4), <<NotFoundUri, BrokenUri>>),
     WithRelations(MinimalItem(6), <<NoHeadUri, MailUri>>)}

\* Media 1 has entries the vocabularies accept and entries they reject in
\* each controlled field, among them subjects that start with a digit and
\* one that does not, and a type whose URI answers 404
LiveMedia ==
    {[WithProps(WithProps(WithProps(MediaWith(1, MailUri, url1),
          "dcterms:temporal",
          <<Prop("customvocab:14", Some("Mittelalter"), None),
            Prop("customvocab:14", Some("Zukunft"), None),
            Prop("customvocab:14", None, None)>>),
          "dcterms:language",
          <<Prop("valuesuggest:lc:iso6391", Some("xx"), None),
            Prop("valuesuggest:lc:iso6391", Some("de"), None)>>),
          "dcterms:subject",
          <<Literal("11H"), Literal("99Z"), Literal("Basel"),
            Literal("25Fx"), Prop("literal", None, None)>>)
        EXCEPT
          !.props["dcterms:format"] =
              <<Literal("image/jpeg"), Literal("image/xyz")>>,
          !.props["dcterms:license"] =
              <<Literal("https://example.com/licence"),
                Literal("https://creativecommons.org/publicdomain/mark/1.0/")>>,
          !.props["dcterms:type"] =
              <<Prop("uri", None,
                     Some(Url("http", "purl.org", <<"", "dc", "dcmitype", "Image">>))),
                Prop("uri", None, Some(NotFoundUri)),
                Literal("Image")>>],
     MediaWith(7, OldUri, FlakyUri),
     MediaWith(8, MovedUri, NotFoundUri)}

\* an Item the schema rejects twice over: no "@context" and an empty title;
\* it has a URI, an unknown era, a URL in a literal and no language
RejectedItem ==
    [Without(Without(
        WithProps(
            WithProps(WithRelations(MinimalItem(5), <<NotFoundUri>>),
                      "dcterms:temporal",
                      <<Prop("customvocab:14", Some("Zukunft"), None)>>),
            "dcterms:description",
            <<Literal("see https://example.com/old")>>),
        "dcterms:language"), "@context")
        EXCEPT !.o_title = ""]

\* a Media the schema rejects for its o:original_url
RejectedMedia ==
    MediaWith(9, OldUri, Url("ftp", "example.com", <<"", "test.jpg">>))

InitLive ==
    InitWith({TRUE}, BOOLEAN, {"warning", "error"}, {DefaultCacheMaxSize})

NextLive ==
    \/ \E data \in LiveItems \cup {RejectedItem} :
           calls.validate < MaxLiveRecords /\ validate_item(data) /\ UNCHANGED run
    \/ \E data \in LiveMedia \cup {RejectedMedia} :
           calls.validate < MaxLiveRecords /\ validate_media(data) /\ UNCHANGED run
    \/ CheckSteps

SpecLive == InitLive /\ [][NextLive]_vars

(***************************************************************************)
(* SpecSwitch: the records of SpecLive, with and without URI checks.       *)
(***************************************************************************)
InitSwitch ==
    InitWith(BOOLEAN, {FALSE}, {"warning"}, {DefaultCacheMaxSize})

SpecSwitch == InitSwitch /\ [][NextLive]_vars

(***************************************************************************)
(* SpecFixed: a session that checks URIs and redirects on a web that       *)
(* answers every request for a URI in the same way.                        *)
(***************************************************************************)
\* client.head(uri) on that web
HeadFixed(uri) ==
    CASE uri = OldUri -> Response(302, Some(Text("new-location")))
      [] uri = MovedUri ->
            Response(301, Some(Url("https", "other.org", <<"", "moved">>)))
      [] uri = NoHeadUri -> Response(405, None)
      [] uri = FlakyUri -> Response(503, None)
      [] OTHER -> CHOOSE r \in HeadAnswers(uri) : TRUE

\* client.get(uri) on that web
GetFixed(uri) ==
    CASE uri = NoHeadUri -> Raised("Read timeout")
      [] OTHER -> CHOOSE r \in GetAnswers(uri) : TRUE

FixedItems ==
    {WithRelations(MinimalItem(4), <<NotFoundUri, BrokenUri>>),
     WithRelations(MinimalItem(5), <<FlakyUri, url4, FlakyUri>>),
     WithRelations(MinimalItem(6), <<NoHeadUri, MailUri>>),
     WithRelations(MinimalItem(7), <<MovedUri, OldUri, NotFoundUri>>),
     RejectedItem}

InitFixed ==
    InitWith({TRUE}, {TRUE}, {"warning", "error"}, {TestCacheMaxSize})

NextFixed ==
    \/ \E data \in FixedItems :
           calls.validate < MaxFixedRecords /\ validate_item(data)
                                           /\ UNCHANGED run
    \/ \E i \in 1..Len(tasks) : TaskStart(i)
    \/ \E i \in 1..Len(tasks) : HeadReturns(i, HeadFixed(tasks[i].uri))
    \/ \E i \in 1..Len(tasks) : GetReturns(i, GetFixed(tasks[i].uri))
    \/ \E i \in 1..Len(tasks) : TaskFinish(i)
    \/ GatherReturns

SpecFixed == InitFixed /\ [][NextFixed]_vars

(***************************************************************************)
(* SpecBatch: a batch of distinct records, validated without URI checks,   *)
(* and the search for duplicate identifiers.                               *)
(***************************************************************************)
BatchItems ==
    {WithIdentifier(MinimalItem(1), "abc"),
     WithIdentifier(MinimalItem(2), "abc"),
     WithIdentifier(MinimalItem(2), "xyz"),
     [WithIdentifier(MinimalItem(2), "abc") EXCEPT !.o_title = ""],
     WithIdentifier(MinimalItem(3), "xyz"),
     WithIdentifier(MinimalItem(3), ""),
     Without(MinimalItem(3), "dcterms:identifier")}

BatchMedia ==
    {WithIdentifier(MinimalMedia(1), "abc"),
     WithIdentifier(MinimalMedia(4), "abc"),
     WithIdentifier(MinimalMedia(4), "xyz")}

\* the caller passes each record of the API once
NotYetValidated(data, resource_type) ==
    \A k \in 1..Len(calls.records) :
        \/ calls.records[k].resource_type # resource_type
        \/ calls.records[k].data.o_id # data.o_id

InitBatch ==
    InitWith({FALSE}, {FALSE}, {"warning"}, {DefaultCacheMaxSize})

NextBatch ==
    \/ \E data \in BatchItems :
           /\ calls.validate < MaxBatch
           /\ NotYetValidated(data, "Item")
           /\ validate_item(data) /\ UNCHANGED run
    \/ \E data \in BatchMedia :
           /\ calls.validate < MaxBatch
           /\ NotYetValidated(data, "Media")
           /\ validate_media(data) /\ UNCHANGED run
    \/ check_duplicate_identifiers /\ UNCHANGED run

SpecBatch == InitBatch /\ [][NextBatch]_vars

(***************************************************************************)
(* SpecIndex: the records of SpecBatch and two Items that have no "o:id",  *)
(* each passed once.  The o_id of a record without the key tells the       *)
(* records apart and is not read by the validator.                         *)
(***************************************************************************)
IndexItems ==
    {WithIdentifier(MinimalItem(1), "abc"),
     [WithIdentifier(MinimalItem(2), "abc") EXCEPT !.o_title = ""],
     Without(WithIdentifier(MinimalItem(4), "abc"), "o:id"),
     Without([WithIdentifier(MinimalItem(5), "abc")
                 EXCEPT !.o_title = "Another Item"], "o:id")}

IndexMedia ==
    {WithIdentifier(MinimalMedia(1), "abc"),
     Without(WithIdentifier(MinimalMedia(6), "abc"), "o:id")}

NextIndex ==
    \/ \E data \in IndexItems :
           NotYetValidated(data, "Item") /\ validate_item(data) /\ UNCHANGED run
    \/ \E data \in IndexMedia :
           NotYetValidated(data, "Media") /\ validate_media(data) /\ UNCHANGED run

SpecIndex == InitBatch /\ [][NextIndex]_vars

(***************************************************************************)
(* SpecItemSet: one call of validate_item_set, without URI checks, on an   *)
(* item set of at most MaxSetItems items, each with at most two media.     *)
(***************************************************************************)
SetItems ==
    {WithIdentifier(MinimalItem(1), "abc"),
     [WithIdentifier(MinimalItem(2), "abc") EXCEPT !.o_title = ""],
     Without(WithIdentifier(MinimalItem(3), "xyz"), "o:id")}

SetMedia ==
    {WithIdentifier(MinimalMedia(1), "abc"),
     WithIdentifier(MinimalMedia(4), "abc")}

\* the lists of distinct records of a set, of at most n records
ListsOf(records, n) ==
    {list \in UNION {[1..k -> records] : k \in 0..n} :
        \A i, j \in 1..Len(list) : list[i] = list[j] => i = j}

NextItemSet ==
    \/ \E items \in ListsOf(SetItems, MaxSetItems) : FetchItemsReturns(items)
    \/ FetchItemsRaises
    \/ LoopValidateItem
    \/ \E media_list \in ListsOf(SetMedia, 2) : FetchMediaReturns(media_list)
    \/ \E exception \in {"HTTPError", "JSONDecodeError"} :
           FetchMediaRaises(exception)
    \/ LoopValidateMedia
    \/ LoopFinalize

SpecItemSet == InitBatch /\ [][NextItemSet]_vars

(***************************************************************************)
(* SpecPresence: the minimal records of test_issue16_validation.py, whole  *)
(* and with one key deleted, validated without URI checks: one Item and    *)
(* one Media to a session.                                                 *)
(***************************************************************************)
\* no record of the type has been validated
NoneValidated(resource_type) ==
    \A k \in 1..Len(calls.records) :
        calls.records[k].resource_type # resource_type

PresenceItems ==
    {MinimalItem(1)}
    \cup {Without(MinimalItem(1), key) : key \in MinimalItem(1).keys}

PresenceMedia ==
    {MinimalMedia(2)}
    \cup {Without(MinimalMedia(2), key) : key \in MinimalMedia(2).keys}

InitPresence ==
    InitWith({FALSE}, {FALSE}, {"warning"}, {DefaultCacheMaxSize})

NextPresence ==
    \/ \E data \in PresenceItems :
           NoneValidated("Item") /\ validate_item(data) /\ UNCHANGED run
    \/ \E data \in PresenceMedia :
           NoneValidated("Media") /\ validate_media(data) /\ UNCHANGED run

SpecPresence == InitPresence /\ [][NextPresence]_vars

(***************************************************************************)
(* SpecFields: one Item and one Media validated without URI checks.  The   *)
(* Item has a dcterms:description of two entries of various types and      *)
(* texts, or is a variant of the minimal Item; the Media is a variant of   *)
(* the minimal Media.                                                      *)
(***************************************************************************)
\* texts of 80, 81 and 96 characters with a URL
Text80 ==
    "See https://example.com/a for the catalogue of the collection xxxxxxxxxxxxxxxxxx"
Text81 ==
    "See https://example.com/a for the catalogue of the collection xxxxxxxxxxxxxxxxxxy"
Text96 ==
    "A note of more than eighty characters in which the address comes only at the very end www.ex.org"

\* the texts of test_issue22_url_in_literals.py, and longer ones
FieldTexts ==
    {"No address here",
     "Visit https://example.com for more",
     "Visit https://example.com and http://another.com for more information",
     "WWW.EXAMPLE.COM",
     Text80, Text81, Text96}

FieldProps ==
    {Prop(type, Some(text), None) :
        type \in {"literal", "uri", "customvocab:14"}, text \in FieldTexts}
    \cup {Prop("literal", None, Some(Site("page")))}

\* the second entry holds two URLs or the longest text
FieldItems ==
    {WithProps(MinimalItem(1), "dcterms:description", <<p, q>>) :
        p \in FieldProps,
        q \in {e \in FieldProps :
                  e.value \in {<<Text96>>,
                      <<"Visit https://example.com and http://another.com for more information">>}}}

\* a record with its thumbnail group absent, null, empty or holding one
\* or all of its sizes, and its o:media absent, empty or holding a reference
ThumbnailVariants(data) ==
    {[d EXCEPT !.thumbnail_display_urls = thumbnails, !.o_media = media] :
        d \in {data, Without(data, "thumbnail_display_urls"),
                WithNull(data, "thumbnail_display_urls")},
        thumbnails \in
            {[large |-> l, medium |-> "", small |-> s] :
                l \in {"", "https://example.com/large.jpg"},
                s \in {"", "https://example.com/small.jpg"}}
            \cup {[large |-> "", medium |-> "https://example.com/medium.jpg",
                    small |-> ""]},
        media \in {<<>>, <<1>>}}
    \cup {[Without(data, "o:media") EXCEPT
               !.thumbnail_display_urls.large = l, !.o_media = <<>>] :
              l \in {"", "https://example.com/large.jpg"}}

NextFields ==
    \/ \E data \in FieldItems \cup ThumbnailVariants(MinimalItem(1)) :
           NoneValidated("Item") /\ validate_item(data) /\ UNCHANGED run
    \/ \E data \in ThumbnailVariants(MinimalMedia(2)) :
           NoneValidated("Media") /\ validate_media(data) /\ UNCHANGED run

SpecFields == InitPresence /\ [][NextFields]_vars

(***************************************************************************)
(* What the properties below read off a step or a state.                   *)
(***************************************************************************)
\* the diagnostics a step appends
NewErrors == SubSeq(errors', Len(errors) + 1, Len(errors'))
NewWarnings == SubSeq(warnings', Len(warnings) + 1, Len(warnings'))

\* the step ends the check of task i (its check_uri_async returns)
Finishes(i) ==
    /\ tasks[i].pc \in {"start", "exit"}
    /\ Len(tasks') = Len(tasks)
    /\ tasks'[i].pc = "done"
    /\ tasks[i].uri.scheme \in {"http", "https"}

\* the step is the cache lookup of task i, for an http(s) URI
LooksUp(i) ==
    /\ tasks[i].pc = "start"
    /\ Len(tasks') = Len(tasks)
    /\ tasks'[i].pc # "start"
    /\ tasks[i].uri.scheme \in {"http", "https"}

\* the step stores the result of task i's request
Stores(i) ==
    /\ tasks[i].pc \in {"head", "get"}
    /\ Len(tasks') = Len(tasks)
    /\ tasks'[i].pc = "exit"

\* the cache holds value for uri
Cached(cache, uri, value) ==
    \E j \in 1..Len(cache) : cache[j].key = uri /\ cache[j].value = value

\* the key of keys that was touched longest ago
LeastRecent(hist, keys) ==
    hist[CHOOSE j \in 1..Len(hist) :
            /\ hist[j] \in keys
            /\ \A k \in 1..(j - 1) : hist[k] \notin keys]

\* the host of a network location: without the port, in lower case
HostOf(netloc) ==
    CASE netloc \in {"example.com", "Example.com", "EXAMPLE.COM",
                     "example.com:443", "example.com:8080"} -> "example.com"
      [] OTHER -> netloc

\* the result is a redirect whose target is on another host than uri
RedirectsToOtherHost(uri, result) ==
    /\ result.status \in {301, 302, 303, 307, 308}
    /\ result.detail # <<>>
    /\ result.detail[1] # EmptyStr
    /\ LET target == result.detail[1]
       IN  target.netloc # "" /\ HostOf(target.netloc) # HostOf(uri.netloc)

IsErrorAbout(e, t, kind) ==
    /\ e.resource_type = t.resource_type
    /\ e.resource_id = t.resource_id
    /\ e.field = t.field
    /\ e.error.kind = kind
    /\ e.error.uri = t.uri

IsWarningAbout(w, t, kind) ==
    /\ w.resource_type = t.resource_type
    /\ w.resource_id = t.resource_id
    /\ w.message.field = t.field
    /\ w.message.text.kind = kind
    /\ w.message.text.uri = t.uri

(***************************************************************************)
(* Properties of the URI cache (SpecUri).                                  *)
(***************************************************************************)
\* C1: in every reachable state of a session, also between the steps of
\* the concurrent checks of one record, uri_cache holds at most
\* uri_cache_max_size entries.
C1_CacheBounded == Len(uri_cache) <= uri_cache_max_size

\* a full cache that has evicted, while checks of a record are in flight
C1_Witness ==
    /\ Len(uri_cache) = uri_cache_max_size
    /\ Len(touched) > uri_cache_max_size
    /\ \E i \in 1..Len(tasks) : tasks[i].pc \in {"head", "exit"}
    /\ \E i \in 1..Len(tasks) : tasks[i].pc = "done"

\* C2: when caching a new URI's result makes the cache exceed its
\* capacity, exactly one entry is evicted, the one whose last insertion or
\* hit is the oldest among the entries present; nothing is evicted
\* otherwise.
C2_EvictsLeastRecent ==
    [][LET inserted == {uri_cache'[j].key : j \in 1..Len(uri_cache')}
                           \ {uri_cache[j].key : j \in 1..Len(uri_cache)}
           evicted == {uri_cache[j].key : j \in 1..Len(uri_cache)}
                          \ {uri_cache'[j].key : j \in 1..Len(uri_cache')}
           present == {uri_cache[j].key : j \in 1..Len(uri_cache)}
       IN  IF inserted # {} /\ Len(uri_cache) + 1 > uri_cache_max_size
           THEN evicted = {LeastRecent(touched, present)}
           ELSE evicted = {}]_vars

\* the scenario of test_cache_eviction_with_reuse: url1, url2, url3, url1
\* again, url4 with capacity 3 leave url3, url1, url4
C2_Witness ==
    /\ uri_cache_max_size = 3
    /\ [j \in 1..Len(uri_cache) |-> uri_cache[j].key] = <<url3, url1, url4>>
    /\ touched = <<url2, url3, url1, url4>>
    /\ checked_uris = 5

\* C3: check_single_uri for a URI that is in the cache returns the cached
\* (status, detail) and issues no HEAD and no GET request.
C3_HitReturnsCached ==
    [][\A i \in 1..Len(tasks) : \A j \in 1..Len(uri_cache) :
          (LooksUp(i) /\ uri_cache[j].key = tasks[i].uri) =>
              /\ head_calls' = head_calls
              /\ get_calls' = get_calls
              /\ tasks'[i].pc = "done"
              /\ tasks'[i].result = uri_cache[j].value]_vars

\* a record checked a second time: both URIs served from the cache, one of
\* them a cached redirect
C3_Witness ==
    /\ calls.validate = 2
    /\ checked_uris = 4
    /\ head_calls = 2
    /\ Len(tasks) = 2
    /\ \A i \in 1..Len(tasks) :
           tasks[i].pc = "done"
           /\ Cached(uri_cache, tasks[i].uri, tasks[i].result)
    /\ \E i \in 1..Len(tasks) : tasks[i].result.status = 301
    /\ \E i \in 1..Len(tasks) : tasks[i].result.status = 200

\* C4: the result of a check that ended with a network exception or an
\* HTTP error status is stored in the cache, and a later check of that URI
\* that finds it there returns it without a request.
C4_FailuresCached ==
    [][\A i \in 1..Len(tasks) :
          /\ (Stores(i) /\ (tasks'[i].result.status = -1
                            \/ tasks'[i].result.status >= 400)) =>
                 Cached(uri_cache', tasks[i].uri, tasks'[i].result)
          /\ \A j \in 1..Len(uri_cache) :
                 (/\ LooksUp(i)
                  /\ uri_cache[j].key = tasks[i].uri
                  /\ (uri_cache[j].value.status = -1
                      \/ uri_cache[j].value.status >= 400)) =>
                     /\ <<head_calls, get_calls>>' = <<head_calls, get_calls>>
                     /\ tasks'[i].result = uri_cache[j].value]_vars

\* the exception and the 404 of a record, served from the cache when the
\* record is checked again
C4_Witness ==
    /\ calls.validate = 2
    /\ checked_uris = 4
    /\ head_calls = 2
    /\ \E i \in 1..Len(tasks) :
           tasks[i].pc = "done" /\ tasks[i].result.status = -1
    /\ \E i \in 1..Len(tasks) :
           tasks[i].pc = "done" /\ tasks[i].result.status = 404

(***************************************************************************)
(* Properties of the classification of a URI's result (SpecLive).          *)
(***************************************************************************)
\* C5: a URI check whose result is HTTP 404 appends one Error for that URI
\* and no Warning, under either uri_check_severity, whether the result came
\* from a request or from the cache.
C5_NotFoundIsError ==
    [][\A i \in 1..Len(tasks) :
          (Finishes(i) /\ tasks'[i].result.status = 404) =>
              /\ Len(NewErrors) = 1
              /\ IsErrorAbout(NewErrors[1], tasks[i], "URI returned HTTP")
              /\ NewErrors[1].error.status = 404
              /\ NewWarnings = <<>>]_vars

\* under severity "warning": the 404 of one URI reported for two records,
\* the second time from the cache
C5_Witness ==
    /\ uri_check_severity = "warning"
    /\ calls.validate = 2
    /\ AllDone
    /\ head_calls = 3
    /\ checked_uris = 4
    /\ Len(errors) = 2
    /\ \A j \in 1..Len(errors) :
           /\ errors[j].error.kind = "URI returned HTTP"
           /\ errors[j].error.status = 404
           /\ errors[j].error.uri = NotFoundUri
    /\ errors[1].resource_id # errors[2].resource_id

\* C6: with check_redirects on, a URI check whose result is a 301, 302,
\* 303, 307 or 308 redirect to a different host appends a Warning about the
\* redirect and no Error, under either uri_check_severity.
C6_CrossDomainIsWarning ==
    [][\A i \in 1..Len(tasks) :
          (/\ Finishes(i)
           /\ check_redirects
           /\ RedirectsToOtherHost(tasks[i].uri, tasks'[i].result)) =>
              /\ Len(NewWarnings) = 1
              /\ IsWarningAbout(NewWarnings[1], tasks[i],
                                "URI redirects to different domain")
              /\ NewErrors = <<>>]_vars

\* under severity "error": a redirect to another host was reported as a
\* Warning, and no Error was
C6_Witness ==
    /\ uri_check_severity = "error"
    /\ check_redirects
    /\ \E i \in 1..Len(tasks) :
           /\ tasks[i].pc = "done"
           /\ tasks[i].uri = MovedUri
           /\ tasks[i].result.status = 301
           /\ RedirectsToOtherHost(tasks[i].uri, tasks[i].result)
           /\ \E j \in 1..Len(warnings) :
                  IsWarningAbout(warnings[j], tasks[i],
                                 "URI redirects to different domain")
    /\ errors = <<>>

\* the result is a failure other than a 404
FailsOtherThan404(result) ==
    result.status = -1 \/ (result.status >= 400 /\ result.status # 404)

\* the kind of the diagnostic of a failure
FailureKind(result) ==
    IF result.status = -1 THEN "URI check failed" ELSE "URI returned HTTP"

\* C10: a URI check whose result is status -1 or an HTTP status >= 400
\* other than 404 appends exactly one diagnostic, an Error if
\* uri_check_severity is "error" and a Warning otherwise, and adds one to
\* failed_uris; a result with 0 <= status < 400 that is not a redirect to a
\* different host appends no diagnostic and leaves failed_uris unchanged.
C10_OneDiagnosticPerFailure ==
    [][\A i \in 1..Len(tasks) :
          Finishes(i) =>
              /\ FailsOtherThan404(tasks'[i].result) =>
                     /\ failed_uris' = failed_uris + 1
                     /\ IF uri_check_severity = "error"
                        THEN /\ Len(NewErrors) = 1
                             /\ IsErrorAbout(NewErrors[1], tasks[i],
                                             FailureKind(tasks'[i].result))
                             /\ NewWarnings = <<>>
                        ELSE /\ Len(NewWarnings) = 1
                             /\ IsWarningAbout(NewWarnings[1], tasks[i],
                                               FailureKind(tasks'[i].result))
                             /\ NewErrors = <<>>
              /\ (/\ tasks'[i].result.status >= 0
                  /\ tasks'[i].result.status < 400
                  /\ ~RedirectsToOtherHost(tasks[i].uri, tasks'[i].result)) =>
                     /\ NewErrors = <<>>
                     /\ NewWarnings = <<>>
                     /\ failed_uris' = failed_uris]_vars

\* the part of C10 about failures: one diagnostic of the configured
\* severity and one more failed URI for a status -1 or an HTTP error other
\* than 404, and nothing for a status below 400 that is not a redirect
C10_FailuresFollowSeverity ==
    [][\A i \in 1..Len(tasks) :
          Finishes(i) =>
              /\ FailsOtherThan404(tasks'[i].result) =>
                     /\ failed_uris' = failed_uris + 1
                     /\ Len(NewErrors) + Len(NewWarnings) = 1
                     /\ (uri_check_severity = "error") = (Len(NewErrors) = 1)
              /\ (/\ tasks'[i].result.status >= 0
                  /\ tasks'[i].result.status < 400
                  /\ tasks'[i].result.status \notin {301, 302, 303, 307, 308}) =>
                     /\ NewErrors = <<>>
                     /\ NewWarnings = <<>>
                     /\ failed_uris' = failed_uris]_vars

\* a redirect to the same host, written with its default port, was reported
\* as a redirect to a different domain
C10_Witness ==
    /\ check_redirects
    /\ \E i \in 1..Len(tasks) :
           /\ tasks[i].pc = "done"
           /\ tasks[i].uri = OldUri
           /\ tasks[i].result.status = 307
           /\ ~RedirectsToOtherHost(tasks[i].uri, tasks[i].result)
           /\ \E j \in 1..Len(warnings) :
                  IsWarningAbout(warnings[j], tasks[i],
                                 "URI redirects to different domain")

(***************************************************************************)
(* Properties of validate_item / validate_media and of the search for      *)
(* duplicate identifiers.                                                  *)
(***************************************************************************)
\* the step is a call of validate_item / validate_media
Validates == calls'.validate = calls.validate + 1
\* the record that call is given, with its type
Validated == calls'.records[Len(calls'.records)]

\* the identifier a record declares: the "@value" of the first entry of
\* its dcterms:identifier, if there is one and it is not empty
DeclaredIdentifier(data) ==
    IF /\ "dcterms:identifier" \in data.keys \ data.nulls
       /\ data.props["dcterms:identifier"] # <<>>
       /\ data.props["dcterms:identifier"][1].value \notin {<<>>, <<"">>}
    THEN data.props["dcterms:identifier"][1].value
    ELSE <<>>

\* the records of the batch that share the identifier of its k-th record
\* and are of its type, by their positions in the batch
GroupOf(records, k) ==
    {j \in 1..Len(records) :
        /\ records[j].resource_type = records[k].resource_type
        /\ DeclaredIdentifier(records[k].data) # <<>>
        /\ DeclaredIdentifier(records[j].data)
               = DeclaredIdentifier(records[k].data)}

\* the 'Duplicate identifier' Errors among es for the record r
DuplicatesFor(es, r) ==
    SelectSeq(es, LAMBDA e :
        /\ e.error.kind = "Duplicate identifier"
        /\ e.resource_type = r.resource_type
        /\ e.resource_id = [n |-> r.data.o_id])

\* C7: after a batch of records, one call of _check_duplicate_identifiers
\* gives a record a 'Duplicate identifier' Error if and only if its
\* declared identifier is shared with another record of its type: exactly
\* one, which names the identifier and lists the ids of all records of the
\* group; it appends nothing else.
C7_DuplicatesReported ==
    [][(calls.finalize = 0 /\ calls'.finalize = 1) =>
          /\ \A k \in 1..Len(calls.records) :
                 LET r == calls.records[k]
                     group == GroupOf(calls.records, k)
                     dups == DuplicatesFor(NewErrors, r)
                 IN  IF Cardinality(group) > 1
                     THEN /\ Len(dups) = 1
                          /\ dups[1].error.identifier
                                 = DeclaredIdentifier(r.data)[1]
                          /\ Len(dups[1].error.ids) = Cardinality(group)
                          /\ {dups[1].error.ids[j] :
                                 j \in 1..Len(dups[1].error.ids)}
                                 = {[n |-> calls.records[j].data.o_id] :
                                       j \in group}
                     ELSE dups = <<>>
          /\ \A j \in 1..Len(NewErrors) :
                 NewErrors[j].error.kind = "Duplicate identifier"
          /\ warnings' = warnings]_vars

\* two Items share "abc", a Media has "abc" too and a third Item has
\* "xyz": the search reported the two Items, and nothing else
C7_Witness ==
    /\ calls.finalize = 1
    /\ calls.validate = 4
    /\ \E a, b, c, d \in 1..4 :
           /\ {a, b, c, d} = 1..4
           /\ calls.records[a].resource_type = "Item"
           /\ calls.records[b].resource_type = "Item"
           /\ calls.records[c].resource_type = "Media"
           /\ calls.records[d].resource_type = "Item"
           /\ DeclaredIdentifier(calls.records[a].data) = <<"abc">>
           /\ DeclaredIdentifier(calls.records[b].data) = <<"abc">>
           /\ DeclaredIdentifier(calls.records[c].data) = <<"abc">>
           /\ DeclaredIdentifier(calls.records[d].data) = <<"xyz">>
           /\ calls.records[a].data.o_title # ""
           /\ calls.records[b].data.o_title # ""
    /\ Len(errors) = 2
    /\ \A j \in 1..Len(errors) :
           /\ errors[j].error.kind = "Duplicate identifier"
           /\ errors[j].resource_type = "Item"
           /\ Len(errors[j].error.ids) = 2
    /\ errors[1].resource_id # errors[2].resource_id

\* the presence rules of issue 16: the fields whose absence is an Error
RequiredFields(resource_type) ==
    IF resource_type = "Item"
    THEN {"o:title", "dcterms:identifier", "dcterms:description",
          "dcterms:temporal"}
    ELSE {"o:title", "dcterms:identifier", "dcterms:description",
          "dcterms:rights", "dcterms:license"}

\* the fields the schema requires
SchemaRequiredFields(resource_type) ==
    IF resource_type = "Item"
    THEN {"@context", "@id", "@type", "o:id", "o:is_public", "o:title",
          "o:created", "o:modified", "dcterms:title"}
    ELSE {"@context", "@id", "@type", "o:id", "o:is_public", "o:title",
          "o:created", "o:modified", "o:ingester", "o:renderer", "o:item",
          "o:media_type", "dcterms:title"}

\* the presence rules of issue 16: the fields whose absence is a Warning
RecommendedFields(resource_type) ==
    IF resource_type = "Item"
    THEN {"dcterms:language", "dcterms:isPartOf"}
    ELSE {"o:resource_template", "dcterms:creator", "dcterms:publisher",
          "dcterms:temporal", "dcterms:type", "dcterms:format",
          "dcterms:extent", "dcterms:source", "dcterms:language"}

\* the minimal valid record of a type, with the id of data
MinimalLike(resource_type, data) ==
    IF resource_type = "Item"
    THEN MinimalItem(data.o_id)
    ELSE MinimalMedia(data.o_id)

\* the record is the minimal record of its type without the key field
Lacks(r, field) ==
    /\ r.data.keys = MinimalLike(r.resource_type, r.data).keys \ {field}
    /\ r.data = [MinimalLike(r.resource_type, r.data)
                    EXCEPT !.keys = r.data.keys]

\* C8: the minimal valid Item and Media yield no Error and no Warning; with
\* one required field deleted they yield exactly one Error, for that field,
\* and no Warning; with one recommended field deleted they yield exactly
\* one Warning and no Error.
C8_OneDiagnosticPerDeletedField ==
    [][Validates =>
          /\ Validated.data = MinimalLike(Validated.resource_type,
                                          Validated.data) =>
                 NewErrors = <<>> /\ NewWarnings = <<>>
          /\ \A field \in RequiredFields(Validated.resource_type)
                   \cup SchemaRequiredFields(Validated.resource_type) :
                 Lacks(Validated, field) =>
                     /\ Len(NewErrors) = 1
                     /\ NewErrors[1].field = <<field>>
                     /\ NewErrors[1].resource_type = Validated.resource_type
                     /\ NewWarnings = <<>>
          /\ \A field \in RecommendedFields(Validated.resource_type) :
                 Lacks(Validated, field) =>
                     /\ Len(NewWarnings) = 1
                     /\ NewWarnings[1].resource_type
                            = Validated.resource_type
                     /\ NewWarnings[1].message.text.kind = "Missing"
                     /\ NewErrors = <<>>]_vars

\* a Media without dcterms:license, then an Item without
\* dcterms:language: one Error for the first, one Warning for the second
C8_Witness ==
    /\ calls.validate = 2
    /\ Lacks(calls.records[1], "dcterms:license")
    /\ calls.records[1].resource_type = "Media"
    /\ Lacks(calls.records[2], "dcterms:language")
    /\ calls.records[2].resource_type = "Item"
    /\ Len(errors) = 1
    /\ errors[1].field = <<"dcterms:license">>
    /\ errors[1].error.kind = "Field is required"
    /\ Len(warnings) = 1
    /\ warnings[1].resource_type = "Item"

\* the fields of the schema of a resource type
FieldsOf(resource_type) ==
    IF resource_type = "Item" THEN ItemFields ELSE MediaFields

\* C9: when the schema rejects a record, validate_item / validate_media
\* appends one Error per violation, with the violation's location and
\* message, and nothing else: no Warning, no URI check (no coroutine, the
\* cache, the URI counters and the requests unchanged), and the counters
\* of validated records unchanged.
C9_RejectedRecordOnlySchemaErrors ==
    [][Validates =>
          LET violations == model_validate(FieldsOf(Validated.resource_type),
                                           Validated.data)
          IN  violations # <<>> =>
                  /\ Len(NewErrors) = Len(violations)
                  /\ \A k \in 1..Len(violations) :
                         /\ NewErrors[k].resource_type
                                = Validated.resource_type
                         /\ NewErrors[k].resource_id
                                = [n |-> Validated.data.o_id]
                         /\ NewErrors[k].field = violations[k].loc
                         /\ NewErrors[k].error = [kind |-> violations[k].msg]
                  /\ warnings' = warnings
                  /\ tasks' = <<>>
                  /\ uri_cache' = uri_cache
                  /\ checked_uris' = checked_uris
                  /\ failed_uris' = failed_uris
                  /\ head_calls' = head_calls
                  /\ get_calls' = get_calls
                  /\ validated_items' = validated_items
                  /\ validated_media' = validated_media]_vars

\* after a record whose URIs were checked, the Item the schema rejects
\* twice over: two Errors, and its URI neither checked nor cached
C9_Witness ==
    /\ check_uris
    /\ calls.validate = 2
    /\ calls.records[2].data = RejectedItem
    /\ tasks = <<>>
    /\ validated_items + validated_media = 1
    /\ checked_uris = 2
    /\ Len(uri_cache) = 2
    /\ \A j \in 1..Len(uri_cache) : uri_cache[j].key # NotFoundUri
    /\ Len(errors) >= 2
    /\ errors[Len(errors) - 1].field = <<"@context">>
    /\ errors[Len(errors) - 1].error.kind = "Field required"
    /\ errors[Len(errors)].field = <<"o:title">>
    /\ errors[Len(errors)].error.kind = "Value error, Title cannot be empty"
    /\ \A j \in 1..Len(errors) : errors[j].resource_id = [n |-> 5] => j >= Len(errors) - 1
    /\ \A j \in 1..Len(warnings) : warnings[j].resource_id # [n |-> 5]

(***************************************************************************)
(* Properties of the requests of one URI check (SpecLive).                 *)
(***************************************************************************)
\* the step is the return of a request of task i, with reply r
Replies(i, r) ==
    /\ tasks[i].pc \in {"head", "get"}
    /\ Len(tasks') = Len(tasks)
    /\ tasks'[i].replies = Append(tasks[i].replies, r)

\* the reply is an exception of the transport
IsException_reply(r) == "raised" \in DOMAIN r

\* C11: an exception raised by the HEAD request or by the GET fallback
\* becomes the result (-1, exception message), which is cached, and the
\* coroutine goes on to its end; the check that ends with that result
\* appends exactly one diagnostic, for that URI, with the message; no
\* coroutine is left behind by an exception.
C11_ExceptionsBecomeResults ==
    [][\A i \in 1..Len(tasks) :
          /\ \A r \in HeadAnswers(tasks[i].uri) \cup GetAnswers(tasks[i].uri) :
                 (Replies(i, r) /\ IsException_reply(r)) =>
                     /\ tasks'[i].pc = "exit"
                     /\ tasks'[i].result.status = -1
                     /\ tasks'[i].result.detail = <<Text(r.message)>>
                     /\ \A j \in 1..Len(tasks) :
                            j # i => tasks'[j] = tasks[j]
                     /\ errors' = errors /\ warnings' = warnings
          /\ (/\ Finishes(i)
              /\ tasks[i].replies # <<>>
              /\ IsException_reply(tasks[i].replies[Len(tasks[i].replies)])) =>
                 /\ Len(NewErrors) + Len(NewWarnings) = 1
                 /\ \A k \in 1..Len(NewErrors) :
                        /\ IsErrorAbout(NewErrors[k], tasks[i],
                                        "URI check failed")
                        /\ NewErrors[k].error.detail = tasks[i].result.detail
                 /\ \A k \in 1..Len(NewWarnings) :
                        /\ IsWarningAbout(NewWarnings[k], tasks[i],
                                          "URI check failed")
                        /\ NewWarnings[k].message.text.detail
                               = tasks[i].result.detail]_vars

\* a record whose HEAD request raised was followed by a record whose GET
\* fallback raised: one diagnostic for each, both records validated
C11_Witness ==
    /\ calls.validate = 2
    /\ validated_items = 2
    /\ AllDone
    /\ failed_uris >= 2
    /\ \E i \in 1..Len(tasks) :
           /\ tasks[i].uri = NoHeadUri
           /\ Len(tasks[i].replies) = 2
           /\ IsException_reply(tasks[i].replies[2])
           /\ tasks[i].result = [status |-> -1, detail |-> <<Text("Read timeout")>>]
    /\ \E k \in 1..Len(errors) \cup 1..Len(warnings) :
           \/ /\ k <= Len(errors)
              /\ errors[k].error.kind = "URI check failed"
              /\ errors[k].error.uri = BrokenUri
           \/ /\ k <= Len(warnings)
              /\ warnings[k].message.text.kind = "URI check failed"
              /\ warnings[k].message.text.uri = BrokenUri

\* the reply is a response whose status asks for the GET fallback
AsksForGet(r) == ~IsException_reply(r) /\ r.status_code \in {405, 501}

\* the result check_single_uri makes of a reply
Converted(r) ==
    IF IsException_reply(r)
    THEN [status |-> -1, detail |-> <<Text(r.message)>>]
    ELSE [status |-> r.status_code, detail |-> r.location]

\* C12: in an uncached URI check a GET request is sent if and only if the
\* HEAD request returned 405 or 501, once, after the HEAD's reply; the
\* check has at most two replies and awaits at most one request at a time;
\* when the GET is sent, the result returned and cached is the GET's.
C12_GetOnlyAfterUnsupportedHead ==
    [][/\ \A i \in 1..Len(tasks) :
            /\ (tasks[i].pc = "head") => tasks[i].replies = <<>>
            /\ (tasks[i].pc = "get") =>
                   Len(tasks[i].replies) = 1 /\ AsksForGet(tasks[i].replies[1])
            /\ Len(tasks[i].replies) <= 2
            /\ (Len(tasks[i].replies) = 2) => AsksForGet(tasks[i].replies[1])
            /\ \A r \in HeadAnswers(tasks[i].uri) :
                   (tasks[i].pc = "head" /\ Replies(i, r)) =>
                       IF AsksForGet(r)
                       THEN /\ get_calls' = get_calls + 1
                            /\ tasks'[i].pc = "get"
                            /\ uri_cache' = uri_cache
                       ELSE /\ get_calls' = get_calls
                            /\ tasks'[i].pc = "exit"
                            /\ tasks'[i].result = Converted(r)
            /\ \A r \in GetAnswers(tasks[i].uri) :
                   (tasks[i].pc = "get" /\ Replies(i, r)) =>
                       /\ get_calls' = get_calls
                       /\ head_calls' = head_calls
                       /\ tasks'[i].pc = "exit"
                       /\ tasks'[i].result = Converted(r)
                       /\ Cached(uri_cache', tasks[i].uri, Converted(r))
       /\ (get_calls' # get_calls) =>
              \E i \in 1..Len(tasks) :
                  /\ tasks[i].pc = "head"
                  /\ Len(tasks') = Len(tasks)
                  /\ tasks'[i].pc = "get"
                  /\ AsksForGet(tasks'[i].replies[1])]_vars

\* HEAD answered 501 and the GET answered 405: two requests, and 405 is
\* the result returned and cached
C12_Witness ==
    /\ head_calls = 1
    /\ get_calls = 1
    /\ \E i \in 1..Len(tasks) :
           /\ tasks[i].pc = "done"
           /\ tasks[i].uri = NoHeadUri
           /\ Len(tasks[i].replies) = 2
           /\ tasks[i].replies[1].status_code = 501
           /\ tasks[i].result = [status |-> 405, detail |-> <<>>]
           /\ Cached(uri_cache, NoHeadUri, tasks[i].result)


(***************************************************************************)
(* Properties of the scan of literal values for URLs (SpecFields).         *)
(***************************************************************************)
\* the texts of FieldTexts in which a URL is written
TextsWithUrl == FieldTexts \ {"No address here"}

\* the entries of a key of a record, none when the key is absent or null
EntriesOf(data, key) ==
    IF key \in data.keys \ data.nulls THEN data.props[key] ELSE <<>>

\* the new Warnings that report a URL in entry i (counted from 1) of key
LeakWarnings(key, i) ==
    {k \in 1..Len(NewWarnings) :
        /\ NewWarnings[k].message.field = <<key, ToString(i - 1)>>
        /\ NewWarnings[k].message.text.kind = "Literal field contains URL"}

\* C13: the scan of literal values appends Warnings only, never an Error;
\* an entry of type "literal" whose value contains one or several URLs gets
\* exactly one Warning, and an entry of any other type, or without a URL,
\* gets none.
C13_OneWarningPerLiteralWithUrl ==
    [][Validates =>
          /\ \A k \in 1..Len(NewErrors) :
                 NewErrors[k].error.kind # "Literal field contains URL"
          /\ \A key \in DctermsKeys :
                 LET entries == EntriesOf(Validated.data, key)
                 IN  \A i \in 1..Len(entries) :
                         Cardinality(LeakWarnings(key, i)) =
                             IF /\ entries[i].type = "literal"
                                /\ entries[i].value # <<>>
                                /\ entries[i].value[1] \in TextsWithUrl
                             THEN 1 ELSE 0
          /\ \A k \in 1..Len(NewWarnings) :
                 NewWarnings[k].message.text.kind
                     = "Literal field contains URL" =>
                     \E key \in DctermsKeys :
                         \E i \in 1..Len(EntriesOf(Validated.data, key)) :
                             k \in LeakWarnings(key, i)]_vars

\* an Item whose description has a literal with two URLs and an entry of
\* type "uri" with the same text: one Warning, for the literal
C13_Witness ==
    /\ calls.validate = 1
    /\ calls.records[1].resource_type = "Item"
    /\ LET entries == calls.records[1].data.props["dcterms:description"]
           both == "Visit https://example.com and http://another.com for more information"
       IN  /\ entries[1].type = "literal" /\ entries[1].value = <<both>>
           /\ entries[2].type = "uri" /\ entries[2].value = <<both>>
    /\ Len(warnings) = 1
    /\ warnings[1].message.field = <<"dcterms:description", "0">>
    /\ errors = <<>>

\* the text quoted by a Warning of the scan
PreviewOf(w) == w.message.text.display_value

\* C14 as stated: the preview quoted in a Warning of the scan is at most
\* 80 characters long, whatever the length of the value.
C14_PreviewAtMost80 ==
    \A k \in 1..Len(warnings) :
        warnings[k].message.text.kind = "Literal field contains URL" =>
            Len(PreviewOf(warnings[k])) <= PreviewLen

\* C14, amended: the preview is the value itself when the value has at most
\* 80 characters, and otherwise its first 80 characters followed by "...";
\* it is at most 83 characters long.
C14_PreviewIsPrefixWithEllipsis ==
    [][Validates =>
          \A key \in DctermsKeys :
              \A i \in 1..Len(EntriesOf(Validated.data, key)) :
                  \A k \in LeakWarnings(key, i) :
                      LET value == EntriesOf(Validated.data, key)[i].value[1]
                          preview == PreviewOf(NewWarnings[k])
                      IN  /\ Len(preview) <= PreviewLen + 3
                          /\ Len(value) <= PreviewLen => preview = value
                          /\ Len(value) > PreviewLen =>
                                 /\ Len(preview) = PreviewLen + 3
                                 /\ SubSeq(preview, 1, PreviewLen)
                                        = SubSeq(value, 1, PreviewLen)
                                 /\ SubSeq(preview, PreviewLen + 1,
                                           PreviewLen + 3) = "..."]_vars

\* literals of 80 and of 96 characters: the first is quoted whole, the
\* second as 80 characters and "..."
C14_Witness ==
    /\ calls.validate = 1
    /\ calls.records[1].resource_type = "Item"
    /\ LET entries == calls.records[1].data.props["dcterms:description"]
       IN  /\ entries[1] = Prop("literal", <<Text80>>, <<>>)
           /\ entries[2] = Prop("literal", <<Text96>>, <<>>)
    /\ Len(warnings) = 2
    /\ PreviewOf(warnings[1]) = Text80
    /\ Len(PreviewOf(warnings[2])) = PreviewLen + 3


(***************************************************************************)
(* The scenario of a URI that answers 404, checked twice (SpecLive).       *)
(***************************************************************************)
\* the session has validated, twice, the Item whose only URI answers 404,
\* and both checks have returned
CheckedNotFoundTwice ==
    /\ calls.validate = 2
    /\ \A k \in 1..2 :
           /\ calls.records[k].resource_type = "Item"
           /\ calls.records[k].data.o_id = 3
    /\ tasks = <<>>
    /\ checked_uris = 2

\* the Errors that report a status 404 for the URI
NotFoundErrors ==
    {k \in 1..Len(errors) :
        /\ errors[k].error.kind = "URI returned HTTP"
        /\ errors[k].error.status = 404
        /\ errors[k].error.uri = Site("notfound")}

\* C15 as stated: checking twice a URI that answers 404 sends one request
\* and leaves one Error with "HTTP 404".
C15_OneRequestOneError ==
    CheckedNotFoundTwice =>
        /\ head_calls + get_calls = 1
        /\ Len(errors) = 1
        /\ Cardinality(NotFoundErrors) = 1

\* C15, amended: checking twice, one check after the other, a URI that
\* answers 404 sends one request, the second check being answered by the
\* cache, and each of the two checks appends one Error with "HTTP 404":
\* two Errors in all, and no Warning.
C15_OneRequestOneErrorPerCheck ==
    CheckedNotFoundTwice =>
        /\ head_calls + get_calls = 1
        /\ Len(errors) = 2
        /\ Cardinality(NotFoundErrors) = 2
        /\ warnings = <<>>
        /\ failed_uris = 2
        /\ \E k \in 1..Len(uri_cache) :
               /\ uri_cache[k].key = Site("notfound")
               /\ uri_cache[k].value.status = 404

\* both checks have returned, under the severity "warning"
C15_Witness ==
    /\ CheckedNotFoundTwice
    /\ uri_check_severity = "warning"
    /\ head_calls = 1
    /\ Len(errors) = 2


(***************************************************************************)
(* The frame of a cache hit (SpecUri).                                     *)
(***************************************************************************)
\* the keys of a cache other than uri, oldest first
OtherKeys(cache, uri) ==
    SelectSeq([j \in 1..Len(cache) |-> cache[j].key], LAMBDA k : k # uri)

\* the step is a cache hit of task i
Hits(i) ==
    /\ LooksUp(i)
    /\ \E j \in 1..Len(uri_cache) : uri_cache[j].key = tasks[i].uri

\* C16: a cache hit leaves the set of keys and every stored value as they
\* are, makes the hit key the most recently used and keeps the order of
\* the other keys; the value it returns is the stored one, before and after.
C16_HitOnlyPromotes ==
    [][\A i \in 1..Len(tasks) :
          Hits(i) =>
              /\ Len(uri_cache') = Len(uri_cache)
              /\ \A j \in 1..Len(uri_cache) :
                     Cached(uri_cache', uri_cache[j].key, uri_cache[j].value)
              /\ uri_cache'[Len(uri_cache')].key = tasks[i].uri
              /\ OtherKeys(uri_cache', tasks[i].uri)
                     = OtherKeys(uri_cache, tasks[i].uri)
              /\ Cached(uri_cache, tasks[i].uri, tasks'[i].result)
              /\ Cached(uri_cache', tasks[i].uri, tasks'[i].result)]_vars

\* url1 and url2, then url3 and url1, then url1 and url2 again: the last
\* hit finds url2 oldest of three and leaves url3, url1, url2
C16_Witness ==
    /\ [j \in 1..Len(uri_cache) |-> uri_cache[j].key] = <<url3, url1, url2>>
    /\ Len(tasks) = 2
    /\ \A i \in 1..2 : tasks[i].pc = "done" /\ tasks[i].replies = <<>>
    /\ tasks[2].uri = url2
    /\ tasks[2].result = uri_cache[3].value
    /\ head_calls = 3
    /\ checked_uris = 6


(***************************************************************************)
(* The URI checks of one record start and end inside its validation        *)
(* (SpecLive).                                                             *)
(***************************************************************************)
\* the step is the return of asyncio.run to validate_item / validate_media
Returns == tasks # <<>> /\ tasks' = <<>>

\* C17: with URI checks enabled, the validation of a valid record starts
\* one check per URI extracted from it; it returns only when every one of
\* them has completed; no validation starts while a check is in flight;
\* and the checks in flight all belong to the record validated last.
C17_ChecksStayInsideTheirRecord ==
    [][/\ Validates =>
             /\ tasks = <<>>
             /\ LET uris == extract_uris_from_data(Validated.data)
                    valid == model_validate(FieldsOf(Validated.resource_type),
                                            Validated.data) = <<>>
                IN  IF valid
                    THEN /\ Len(tasks') = Len(uris)
                         /\ \A i \in 1..Len(uris) :
                                /\ tasks'[i].uri = uris[i].uri
                                /\ tasks'[i].field = uris[i].field
                                /\ tasks'[i].pc = "start"
                    ELSE tasks' = <<>>
       /\ Returns => \A i \in 1..Len(tasks) : tasks[i].pc = "done"
       /\ ~Validates /\ ~Returns => Len(tasks') = Len(tasks)
       /\ \A i \in 1..Len(tasks') :
             LET last == calls'.records[Len(calls'.records)]
             IN  /\ tasks'[i].resource_type = last.resource_type
                 /\ tasks'[i].resource_id = IdOf(last.data)]_vars

\* the second record of a session with one check completed and the other
\* awaiting its answer, after the first record's checks left an Error
C17_Witness ==
    /\ calls.validate = 2
    /\ calls.records[1].data.o_id # calls.records[2].data.o_id
    /\ Len(tasks) = 2
    /\ tasks[1].pc = "head"
    /\ tasks[2].pc = "done"
    /\ \A i \in 1..2 : tasks[i].resource_id = IdOf(calls.records[2].data)
    /\ \E k \in 1..Len(errors) :
           errors[k].resource_id = IdOf(calls.records[1].data)


(***************************************************************************)
(* The order of the diagnostics of a session (SpecLive).                   *)
(***************************************************************************)
\* the messages check_uri_async writes
LivenessKinds ==
    {"URI check failed", "URI redirects to different domain",
     "URI returned HTTP"}

\* the record validated last, as the diagnostics name it
LastRecord ==
    LET last == calls'.records[Len(calls'.records)]
    IN  [resource_type |-> last.resource_type, resource_id |-> IdOf(last.data)]

NamesLastRecord(d) ==
    /\ d.resource_type = LastRecord.resource_type
    /\ d.resource_id = LastRecord.resource_id

\* C18: errors and warnings only grow at their ends.  The step that
\* validates a record appends its schema, vocabulary, presence and leakage
\* diagnostics, after every check of the record before has completed; each
\* later step up to the next validation appends only liveness diagnostics
\* of that record, in whatever order its checks complete.
C18_DiagnosticsInRecordOrder ==
    [][/\ SubSeq(errors', 1, Len(errors)) = errors
       /\ SubSeq(warnings', 1, Len(warnings)) = warnings
       /\ \A k \in 1..Len(NewErrors) : NamesLastRecord(NewErrors[k])
       /\ \A k \in 1..Len(NewWarnings) : NamesLastRecord(NewWarnings[k])
       /\ IF Validates
          THEN /\ tasks = <<>>
               /\ \A k \in 1..Len(NewErrors) :
                      NewErrors[k].error.kind \notin LivenessKinds
               /\ \A k \in 1..Len(NewWarnings) :
                      NewWarnings[k].message.text.kind \notin LivenessKinds
          ELSE /\ \A k \in 1..Len(NewErrors) :
                      NewErrors[k].error.kind \in LivenessKinds
               /\ \A k \in 1..Len(NewWarnings) :
                      NewWarnings[k].message.text.kind \in LivenessKinds]_vars

\* Item 2 then Item 4 under the severity "warning": the vocabulary Error of
\* Item 2 precedes its 404, which precedes the Errors of Item 4; the
\* leakage and presence Warnings of Item 2 precede its 503, although the
\* 503 belongs to the URI extracted first and the 404 was reported first
C18_Witness ==
    /\ calls.validate = 2
    /\ tasks = <<>>
    /\ Len(errors) = 3
    /\ errors[1].resource_id = [n |-> 2] /\ errors[1].error.kind \notin LivenessKinds
    /\ errors[2].resource_id = [n |-> 2] /\ errors[2].error.kind = "URI returned HTTP"
    /\ errors[3].resource_id = [n |-> 4]
    /\ Len(warnings) = 4
    /\ \A k \in 1..2 : warnings[k].message.text.kind \notin LivenessKinds
    /\ warnings[3].resource_id = [n |-> 2]
    /\ warnings[3].message.text.kind = "URI returned HTTP"
    /\ warnings[4].resource_id = [n |-> 4]


(***************************************************************************)
(* The rule of thumbnails or media (SpecFields).                           *)
(***************************************************************************)
\* the thumbnail group of a record has a large, medium or small URL
HasThumbnail(data) ==
    /\ "thumbnail_display_urls" \in data.keys \ data.nulls
    /\ {data.thumbnail_display_urls.large, data.thumbnail_display_urls.medium,
        data.thumbnail_display_urls.small} # {""}

\* the o:media list of a record has an entry
HasMedia(data) ==
    "o:media" \in data.keys \ data.nulls /\ data.o_media # <<>>

\* the new Warnings of the rule
ThumbnailWarnings ==
    {k \in 1..Len(NewWarnings) :
        /\ NewWarnings[k].message.text.kind = "Missing"
        /\ NewWarnings[k].message.text.what
               = "thumbnails (large, medium, small) or media"}

\* C19: the validation of a structurally valid record appends the Warning
\* "Missing thumbnails (large, medium, small) or media" once when the
\* record has neither a thumbnail URL nor an entry in o:media, and not at
\* all when it has either.
C19_WarningIffNeitherThumbnailNorMedia ==
    [][(Validates /\ model_validate(FieldsOf(Validated.resource_type),
                                    Validated.data) = <<>>) =>
          Cardinality(ThumbnailWarnings) =
              IF ~HasThumbnail(Validated.data) /\ ~HasMedia(Validated.data)
              THEN 1 ELSE 0]_vars

\* test_item_warnings: an Item with thumbnail_display_urls None and an
\* empty o:media is warned; then a Media with only a small thumbnail and
\* no o:media is not
C19_Witness ==
    /\ calls.validate = 2
    /\ calls.records[1].resource_type = "Item"
    /\ "thumbnail_display_urls" \in calls.records[1].data.nulls
    /\ "o:media" \in calls.records[1].data.keys
    /\ calls.records[1].data.o_media = <<>>
    /\ calls.records[2].resource_type = "Media"
    /\ "thumbnail_display_urls" \in
           calls.records[2].data.keys \ calls.records[2].data.nulls
    /\ calls.records[2].data.thumbnail_display_urls
           = [large |-> "", medium |-> "", small |-> "https://example.com/small.jpg"]
    /\ calls.records[2].data.o_media = <<>>
    /\ Len(warnings) = 1
    /\ warnings[1].resource_type = "Item"
    /\ warnings[1].message.text.kind = "Missing"
    /\ errors = <<>>


(***************************************************************************)
(* The vocabulary checks of a record (SpecLive).                           *)
(***************************************************************************)
ControlledFields ==
    {"dcterms:temporal", "dcterms:format", "dcterms:license", "dcterms:type",
     "dcterms:language", "dcterms:subject"}

\* the value of an entry that its field's vocabulary is asked about: the
\* "@id" for dcterms:type and the "@value" for the other fields; <<>> when
\* the entry has none
CheckedValue(key, entry) ==
    IF key = "dcterms:type"
    THEN IF entry.id = <<EmptyStr>> THEN <<>> ELSE entry.id
    ELSE IF entry.value = <<"">> THEN <<>> ELSE entry.value

\* the vocabulary of the field does not hold the value
NotInVocabulary(key, value) ==
    CASE key = "dcterms:temporal" -> ~is_valid_era(value)
      [] key = "dcterms:format" -> ~is_valid_mime_type(value)
      [] key = "dcterms:license" -> ~is_valid_license(value)
      [] key = "dcterms:type" -> ~is_valid_type(value)
      [] key = "dcterms:language" -> ~is_valid_language(value)
      [] key = "dcterms:subject" ->
            /\ SubSeq(value, 1, 1) \in
                   {"0", "1", "2", "3", "4", "5", "6", "7", "8", "9"}
            /\ ~is_valid_iconclass(value)

\* the new Errors about entry i (counted from 1) of key
EntryErrors(key, i) ==
    {k \in 1..Len(NewErrors) : NewErrors[k].field = <<key, ToString(i - 1)>>}

\* the text in the literals of SpecLive that holds a URL
LeakedText == "see https://example.com/old"

\* C20: the validation of a structurally valid record appends one
\* vocabulary Error for an entry of a controlled field exactly when the
\* entry has a value that the vocabulary of the field does not hold, the
\* subject being looked up only when it starts with a digit; and with or
\* without such Errors the record gets its presence and leakage Warnings
\* and one URI check per extracted URI.
C20_VocabularyErrorPerRejectedEntry ==
    [][(Validates /\ model_validate(FieldsOf(Validated.resource_type),
                                    Validated.data) = <<>>) =>
          /\ \A key \in ControlledFields :
                 LET entries == EntriesOf(Validated.data, key)
                 IN  \A i \in 1..Len(entries) :
                         Cardinality(EntryErrors(key, i)) =
                             IF /\ CheckedValue(key, entries[i]) # <<>>
                                /\ NotInVocabulary(key,
                                       CheckedValue(key, entries[i])[1])
                             THEN 1 ELSE 0
          /\ \A k \in 1..Len(NewErrors) :
                 \E key \in ControlledFields :
                     \E i \in 1..Len(EntriesOf(Validated.data, key)) :
                         k \in EntryErrors(key, i)
          /\ \A field \in RecommendedFields(Validated.resource_type)
                            \ {"o:resource_template"} :
                 field \notin Validated.data.keys =>
                     \E k \in 1..Len(NewWarnings) :
                         /\ NewWarnings[k].message.text.kind = "Missing"
                         /\ NewWarnings[k].message.text.what = field
          /\ \A key \in DctermsKeys :
                 \A i \in 1..Len(EntriesOf(Validated.data, key)) :
                     LET entry == EntriesOf(Validated.data, key)[i]
                     IN  (entry.type = "literal" /\ entry.value = <<LeakedText>>)
                             => Cardinality(LeakWarnings(key, i)) = 1
          /\ Len(tasks') = Len(extract_uris_from_data(Validated.data))]_vars

\* Media 1 then Item 2, all checks returned: the Errors of the rejected
\* entries of Media 1, in the order of the fields, then the 404 of its
\* type; the Era Error of Item 2, its two Warnings, and its 404
C20_Witness ==
    /\ calls.validate = 2
    /\ tasks = <<>>
    /\ calls.records[1].data.o_id = 1
    /\ calls.records[2].data.o_id = 2
    /\ [k \in 1..Len(errors) |-> errors[k].field] =
           << <<"dcterms:temporal", "1">>, <<"dcterms:format", "1">>,
              <<"dcterms:license", "0">>, <<"dcterms:type", "1">>,
              <<"dcterms:language", "0">>, <<"dcterms:subject", "1">>,
              <<"dcterms:subject", "3">>,
              <<"dcterms:type", "1", "@id">>,
              <<"dcterms:temporal", "0">>,
              <<"dcterms:relation", "1", "@id">> >>
    /\ \E k \in 1..Len(warnings) :
           /\ warnings[k].resource_id = [n |-> 2]
           /\ warnings[k].message.text.kind = "Literal field contains URL"
    /\ \E k \in 1..Len(warnings) :
           /\ warnings[k].resource_id = [n |-> 2]
           /\ warnings[k].message.text.kind = "Missing"


(***************************************************************************)
(* The identifier index and the records the schema rejects (SpecBatch).    *)
(***************************************************************************)
\* the ids a map lists under an identifier, none when it has no such key
IdsUnder(map, identifier) ==
    IF \E i \in 1..Len(map) : map[i].identifier = identifier
    THEN map[CHOOSE i \in 1..Len(map) : map[i].identifier = identifier].ids
    ELSE <<>>

\* the schema accepts the record
Accepted(r) == model_validate(FieldsOf(r.resource_type), r.data) = <<>>

\* the identifier map of the type of a record, before and after the step
MapOf(r) ==
    IF r.resource_type = "Item" THEN item_identifiers ELSE media_identifiers
MapAfter(r) ==
    IF r.resource_type = "Item" THEN item_identifiers' ELSE media_identifiers'

\* C21: validate_item / validate_media appends the id of the record to the
\* list of its declared identifier whether or not the schema accepts the
\* record; and a search for duplicates gives a 'Duplicate identifier' Error
\* both to a rejected record and to an accepted record of the same type
\* that declares the same identifier.
C21_RejectedRecordsAreRegistered ==
    [][/\ Validates =>
             LET declared == DeclaredIdentifier(Validated.data)
             IN  IF declared = <<>>
                 THEN MapAfter(Validated) = MapOf(Validated)
                 ELSE IdsUnder(MapAfter(Validated), declared[1]) =
                          Append(IdsUnder(MapOf(Validated), declared[1]),
                                 [n |-> Validated.data.o_id])
       /\ calls'.finalize = calls.finalize + 1 =>
             \A k, j \in 1..Len(calls.records) :
                 (/\ j \in GroupOf(calls.records, k)
                  /\ ~Accepted(calls.records[k])
                  /\ Accepted(calls.records[j])) =>
                     /\ Len(DuplicatesFor(NewErrors, calls.records[k])) = 1
                     /\ Len(DuplicatesFor(NewErrors, calls.records[j])) = 1]_vars

\* Item 2, rejected for its empty title, and Item 1 both declare "abc":
\* the search reported both
C21_Witness ==
    /\ calls.validate = 2
    /\ calls.finalize = 1
    /\ calls.records[1].data.o_id = 2
    /\ ~Accepted(calls.records[1])
    /\ calls.records[2].data.o_id = 1
    /\ Accepted(calls.records[2])
    /\ DeclaredIdentifier(calls.records[1].data) = <<"abc">>
    /\ DeclaredIdentifier(calls.records[2].data) = <<"abc">>
    /\ Len(errors) = 3
    /\ errors[2].error.kind = "Duplicate identifier"
    /\ errors[2].resource_id = [n |-> 2]
    /\ errors[3].error.kind = "Duplicate identifier"
    /\ errors[3].resource_id = [n |-> 1]


(***************************************************************************)
(* The id lists of the identifier index (SpecIndex).                       *)
(***************************************************************************)
\* how often id occurs in a list of ids
Occurrences(ids, id) == Cardinality({j \in 1..Len(ids) : ids[j] = id})

\* the lists of ids of both identifier maps
IdLists ==
    {item_identifiers[i].ids : i \in 1..Len(item_identifiers)}
    \cup {media_identifiers[i].ids : i \in 1..Len(media_identifiers)}

\* C22 as stated: when each record is validated at most once, no resource
\* id occurs more than once in the list of any identifier.
C22_NoIdTwice ==
    \A ids \in IdLists : \A j \in 1..Len(ids) : Occurrences(ids, ids[j]) = 1

\* C22, amended: when each record is validated at most once, no "o:id"
\* occurs more than once in the list of any identifier; the placeholder
\* "unknown" occurs in the list of an identifier once for every validated
\* record of the type that has no "o:id" and declares that identifier.
C22_NoIdTwiceButUnknown ==
    /\ \A ids \in IdLists : \A j \in 1..Len(ids) :
           "n" \in DOMAIN ids[j] => Occurrences(ids, ids[j]) = 1
    /\ \A resource_type \in {"Item", "Media"} :
           LET map == IF resource_type = "Item"
                      THEN item_identifiers ELSE media_identifiers
           IN  \A i \in 1..Len(map) :
                   Occurrences(map[i].ids, [s |-> "unknown"]) =
                       Cardinality({k \in 1..Len(calls.records) :
                           /\ calls.records[k].resource_type = resource_type
                           /\ "o:id" \notin calls.records[k].data.keys
                           /\ DeclaredIdentifier(calls.records[k].data)
                                  = <<map[i].identifier>>})

\* Item 1 and the two Items without "o:id" all declare "abc": the list of
\* "abc" holds 1 once and "unknown" twice
C22_Witness ==
    /\ calls.validate = 3
    /\ \E i \in 1..Len(item_identifiers) :
           /\ item_identifiers[i].identifier = "abc"
           /\ Len(item_identifiers[i].ids) = 3
           /\ Occurrences(item_identifiers[i].ids, [n |-> 1]) = 1
           /\ Occurrences(item_identifiers[i].ids, [s |-> "unknown"]) = 2


(***************************************************************************)
(* validate_item_set and the search for duplicates (SpecItemSet).          *)
(***************************************************************************)
\* C23: in every run of validate_item_set that returns normally,
\* _check_duplicate_identifiers is called exactly once, and only after the
\* last validate_item / validate_media call of the run, also when fetching
\* the media of an item failed with an HTTP error: the run has returned
\* exactly when the search has been made once, and once the search has been
\* made no record is validated and no second search is made.
C23_DuplicatesSearchedOnceAtTheEnd ==
    [][/\ (run'.pc = "done") = (calls'.finalize = 1)
       /\ calls'.finalize <= 1
       /\ calls'.finalize = 1 => run'.items = <<>> /\ run'.media = <<>>
       /\ calls.finalize = 1 => calls' = calls]_vars

\* a run over two items that has returned: the media of one item could not
\* be fetched, the other item has two media, and the search was made once
C23_Witness ==
    /\ run.pc = "done"
    /\ run.printed = 1
    /\ calls.validate = 4
    /\ calls.finalize = 1
    /\ calls.records[1].resource_type = "Item"
    /\ calls.records[2].resource_type = "Item"
    /\ calls.records[4].resource_type = "Media"


(***************************************************************************)
(* What a search for duplicates changes (SpecBatch).                       *)
(***************************************************************************)
\* the step is a call of _check_duplicate_identifiers
Searches == calls'.finalize = calls.finalize + 1

\* the 'Duplicate identifier' Errors that a map with shared identifiers
\* calls for
SharedIn(map, resource_type, where) ==
    UNION {{DataValidationError(resource_type, map[i].ids[j],
                                <<"dcterms:identifier">>,
                                MsgDuplicate(map[i].identifier, where,
                                             map[i].ids)) :
               j \in 1..Len(map[i].ids)} :
           i \in {i \in 1..Len(map) : Len(map[i].ids) > 1}}

\* C24: _check_duplicate_identifiers only appends to errors and leaves the
\* identifier maps, the warnings, the counters and the cache unchanged; it
\* is not idempotent: the Errors it appends are those of the shared
\* identifiers of the maps it leaves behind, whether or not errors already
\* holds them, so a second call with no validation in between appends the
\* same set of Errors again.
C24_SearchOnlyAppendsAndRepeats ==
    [][Searches =>
          /\ SubSeq(errors', 1, Len(errors)) = errors
          /\ item_identifiers' = item_identifiers
          /\ media_identifiers' = media_identifiers
          /\ warnings' = warnings
          /\ <<validated_items, validated_media, checked_uris, failed_uris>>'
                 = <<validated_items, validated_media, checked_uris,
                     failed_uris>>
          /\ uri_cache' = uri_cache
          /\ {NewErrors[j] : j \in 1..Len(NewErrors)}
                 = SharedIn(item_identifiers', "Item", "items")
                   \cup SharedIn(media_identifiers', "Media", "media")
          /\ Len(NewErrors)
                 = Cardinality(SharedIn(item_identifiers', "Item", "items"))
                   + Cardinality(SharedIn(media_identifiers', "Media",
                                          "media"))]_vars

\* Items 1 and 2 share "abc" and the search was made twice in a row: the
\* two Errors of the first search are there a second time
C24_Witness ==
    /\ calls.finalize = 2
    /\ calls.validate = 2
    /\ Len(errors) = 4
    /\ SubSeq(errors, 3, 4) = SubSeq(errors, 1, 2)
    /\ errors[1].error.kind = "Duplicate identifier"
    /\ errors[1] # errors[2]


(***************************************************************************)
(* Which records have their URIs checked (SpecSwitch).                     *)
(***************************************************************************)
\* the URIs of a sequence of tasks, or of (field, uri) pairs
UrisOf(ts) == [i \in 1..Len(ts) |-> ts[i].uri]

\* C25: the URIs of a record are checked if and only if check_uris is
\* enabled and the record passed schema validation, whatever vocabulary or
\* presence Errors it got; with check_uris disabled no request is made, the
\* cache stays empty and checked_uris and failed_uris stay 0.
C25_UrisCheckedIffEnabledAndAccepted ==
    [][/\ Validates =>
              IF check_uris /\ Accepted(Validated)
              THEN UrisOf(tasks')
                       = UrisOf(extract_uris_from_data(Validated.data))
              ELSE tasks' = <<>>
       /\ ~check_uris =>
              /\ tasks' = <<>>
              /\ head_calls' = 0
              /\ get_calls' = 0
              /\ uri_cache' = <<>>
              /\ checked_uris' = 0
              /\ failed_uris' = 0]_vars

\* Item 2 passed the schema and got the Error of its unknown era: its two
\* URIs are about to be checked
C25_Witness ==
    /\ check_uris
    /\ calls.validate = 1
    /\ calls.records[1].resource_type = "Item"
    /\ calls.records[1].data.o_id = 2
    /\ validated_items = 1
    /\ \E j \in 1..Len(errors) : errors[j].field[1] = "dcterms:temporal"
    /\ UrisOf(tasks) = <<FlakyUri, NotFoundUri>>
    /\ \A i \in 1..Len(tasks) : tasks[i].pc = "start"


(***************************************************************************)
(* Redirects and the cross-domain Warning (SpecLive).                      *)
(***************************************************************************)
\* the result is a redirect whose Location, resolved against uri, has
\* another network location (host and port) than uri
RedirectsToOtherNetloc(uri, result) ==
    /\ result.status \in {301, 302, 303, 307, 308}
    /\ result.detail # <<>>
    /\ result.detail[1] # EmptyStr
    /\ LET target == result.detail[1]
       IN  /\ target.netloc # ""
           /\ target.netloc # uri.netloc
           /\ {target.netloc, uri.netloc}
                  \notin SUBSET {"example.com", "Example.com", "EXAMPLE.COM"}

\* C26: with check_redirects enabled and a status in {301, 302, 303, 307,
\* 308}, the cross-domain Warning is appended if and only if the host of
\* the resolved Location differs, in lower case, from the host of the
\* checked URI: a relative Location, a Location on the same host whatever
\* its scheme, port or path, or a missing Location appends nothing; with
\* check_redirects disabled no redirect appends a diagnostic.
C26_WarningIffOtherHost ==
    [][\A i \in 1..Len(tasks) :
          (/\ Finishes(i)
           /\ tasks'[i].result.status \in {301, 302, 303, 307, 308}) =>
              IF /\ check_redirects
                 /\ RedirectsToOtherHost(tasks[i].uri, tasks'[i].result)
              THEN /\ Len(NewWarnings) = 1
                   /\ IsWarningAbout(NewWarnings[1], tasks[i],
                                     "URI redirects to different domain")
                   /\ NewErrors = <<>>
              ELSE /\ NewWarnings = <<>>
                   /\ NewErrors = <<>>]_vars

\* what the code does: the Warning is appended if and only if the network
\* location of the resolved Location, host and port, differs in lower case
\* from that of the checked URI
C26_WarningIffOtherNetloc ==
    [][\A i \in 1..Len(tasks) :
          (/\ Finishes(i)
           /\ tasks'[i].result.status \in {301, 302, 303, 307, 308}) =>
              IF /\ check_redirects
                 /\ RedirectsToOtherNetloc(tasks[i].uri, tasks'[i].result)
              THEN /\ Len(NewWarnings) = 1
                   /\ IsWarningAbout(NewWarnings[1], tasks[i],
                                     "URI redirects to different domain")
                   /\ NewErrors = <<>>
              ELSE /\ NewWarnings = <<>>
                   /\ NewErrors = <<>>]_vars

\* the 307 of https://example.com/old to https://example.com:443/... is
\* the only diagnostic of the session: a Warning about a different domain
C26_Witness ==
    /\ check_redirects
    /\ errors = <<>>
    /\ Len(warnings) = 1
    /\ warnings[1].message.text.kind = "URI redirects to different domain"
    /\ warnings[1].message.text.uri = OldUri
    /\ warnings[1].message.text.target.netloc = "example.com:443"
    /\ \E i \in 1..Len(tasks) :
           /\ tasks[i].uri = OldUri
           /\ tasks[i].result.status = 307


(***************************************************************************)
(* Caching a result for a URI that is already cached (SpecUri).            *)
(***************************************************************************)
\* the entries of a cache other than that of uri, in their order
EntriesBut(cache, uri) == SelectSeq(cache, LAMBDA entry : entry.key # uri)

\* C27: caching a result for a URI that is already in the cache, as after
\* two concurrent misses of one URI, replaces the value by the later
\* result, makes the key the most recently used, evicts nothing and leaves
\* the size unchanged; the cache never holds two entries for one URI.
C27_RecachingReplaces ==
    [][/\ \A i \in 1..Len(tasks) :
              (/\ Stores(i)
               /\ \E j \in 1..Len(uri_cache) :
                      uri_cache[j].key = tasks[i].uri) =>
                  /\ Len(uri_cache') = Len(uri_cache)
                  /\ uri_cache'[Len(uri_cache')]
                         = [key |-> tasks[i].uri, value |-> tasks'[i].result]
                  /\ EntriesBut(uri_cache', tasks[i].uri)
                         = EntriesBut(uri_cache, tasks[i].uri)
       /\ \A j, k \in 1..Len(uri_cache') :
              uri_cache'[j].key = uri_cache'[k].key => j = k]_vars

\* both checks of https://example.com/flaky missed the cache; the first
\* stored 200 behind a younger entry, the second replaced it by 503 and
\* made the key the most recently used
C27_Witness ==
    /\ calls.validate = 1
    /\ [j \in 1..Len(uri_cache) |-> uri_cache[j].key] = <<url4, FlakyUri>>
    /\ uri_cache[2].value = Result(503, None)
    /\ \E i, k \in 1..Len(tasks) :
           /\ i # k
           /\ tasks[i].uri = FlakyUri
           /\ tasks[k].uri = FlakyUri
           /\ tasks[i].result = Result(200, None)
           /\ tasks[k].result = Result(503, None)
           /\ tasks[i].pc \in {"exit", "done"}
           /\ tasks[k].pc \in {"exit", "done"}
    /\ head_calls = 3


(***************************************************************************)
(* HEAD requests per URI (SpecUri).                                        *)
(***************************************************************************)
\* the step sends the HEAD request of task i
SendsHead(i) ==
    /\ tasks[i].pc = "start"
    /\ Len(tasks') = Len(tasks)
    /\ tasks'[i].pc = "head"

\* task j has sent a HEAD request
HasSentHead(j) ==
    \/ tasks[j].pc \in {"head", "get", "exit"}
    \/ tasks[j].pc = "done" /\ tasks[j].replies # <<>>

\* nothing has been evicted so far: the cache has room for every URI that
\* was ever cached
NeverEvicted == Len(touched) <= uri_cache_max_size

\* C28: in a session whose cache never evicts, every distinct URI causes at
\* most one HEAD request over the whole session, also when several
\* concurrent tasks of one fan-out check the same URI: a HEAD is sent for a
\* URI only if no HEAD was sent for it before, neither by a check of an
\* earlier record nor by another task of the same fan-out.
C28_OneHeadPerUri ==
    [][NeverEvicted =>
          \A i \in 1..Len(tasks) :
              SendsHead(i) =>
                  /\ \A k \in 1..Len(touched) : touched[k] # tasks[i].uri
                  /\ \A j \in 1..Len(tasks) :
                         (j # i /\ tasks[j].uri = tasks[i].uri) =>
                             ~HasSentHead(j)]_vars

\* what the code does: in a session whose cache never evicts, a HEAD is
\* sent for a URI only while no result for it has been cached, so that the
\* HEAD requests for one URI all come from concurrent tasks of the first
\* fan-out that checks it, at most one for each of these tasks
C28_HeadOnlyBeforeFirstResult ==
    [][NeverEvicted =>
          \A i \in 1..Len(tasks) :
              SendsHead(i) =>
                  /\ \A k \in 1..Len(touched) : touched[k] # tasks[i].uri
                  /\ \A j \in 1..Len(tasks) :
                         (j # i /\ tasks[j].uri = tasks[i].uri) =>
                             tasks[j].pc \in {"start", "head", "get"}
                  /\ ~HasSentHead(i)]_vars

\* the two concurrent checks of https://example.com/flaky of one record
\* have both sent their HEAD request, and nothing has been cached yet
C28_Witness ==
    /\ calls.validate = 1
    /\ uri_cache = <<>>
    /\ \E i, j \in 1..Len(tasks) :
           /\ i < j
           /\ tasks[i].uri = FlakyUri
           /\ tasks[j].uri = FlakyUri
           /\ tasks[i].pc = "head"
           /\ tasks[j].pc = "head"
    /\ head_calls = 3


(***************************************************************************)
(* The counters of the URI checks (SpecFixed).                             *)
(***************************************************************************)
\* the number of http(s) URIs among the (field, uri) pairs of a record
HttpCount(data) ==
    LET uris == extract_uris_from_data(data)
    IN  Cardinality({j \in 1..Len(uris) :
                        uris[j].uri.scheme \in {"http", "https"}})

\* the number of http(s) URIs of the records of a list that the schema
\* accepts
RECURSIVE HttpTotal(_)
HttpTotal(records) ==
    IF records = <<>> THEN 0
    ELSE (IF Accepted(Head(records)) THEN HttpCount(Head(records).data) ELSE 0)
         + HttpTotal(Tail(records))

\* the step passes the filter of task i, whose URI is not an http(s) URI
Skips(i) ==
    /\ tasks[i].pc = "start"
    /\ Len(tasks') = Len(tasks)
    /\ tasks'[i].pc = "done"
    /\ tasks[i].uri.scheme \notin {"http", "https"}

\* C29: no counter update is lost under interleaving.  checked_uris counts
\* every extracted http(s) URI whose check has begun, duplicates and cache
\* hits included, so that at fan-in it has grown by the number of http(s)
\* URIs of the record; any other URI is skipped with no diagnostic, no
\* cache entry and no request; failed_uris grows by one exactly when a
\* check ends with the result -1 or a status >= 400; and failed_uris never
\* exceeds checked_uris.
C29_CountersExact ==
    [][/\ checked_uris' + Cardinality({i \in 1..Len(tasks') :
                               /\ tasks'[i].pc = "start"
                               /\ tasks'[i].uri.scheme \in {"http", "https"}})
              = HttpTotal(calls'.records)
       /\ tasks' = <<>> => checked_uris' = HttpTotal(calls'.records)
       /\ \A i \in 1..Len(tasks) :
              /\ Skips(i) =>
                     /\ NewErrors = <<>>
                     /\ NewWarnings = <<>>
                     /\ uri_cache' = uri_cache
                     /\ <<head_calls, get_calls>>' = <<head_calls, get_calls>>
                     /\ <<checked_uris, failed_uris>>'
                            = <<checked_uris, failed_uris>>
              /\ Finishes(i) =>
                     failed_uris' = failed_uris
                         + (IF \/ tasks'[i].result.status = -1
                               \/ tasks'[i].result.status >= 400
                            THEN 1 ELSE 0)
       /\ (\A i \in 1..Len(tasks) : ~Finishes(i)) =>
              failed_uris' = failed_uris
       /\ failed_uris' <= checked_uris']_vars

\* after Item 5 (a URI that answers 503, twice, and one that answers 200)
\* and Item 6 (a 405 with a GET fallback that times out, and a mailto
\* URI): four http(s) URIs were checked and three failed
C29_Witness ==
    /\ calls.validate = 2
    /\ tasks = <<>>
    /\ {calls.records[k].data.o_id : k \in 1..2} = {5, 6}
    /\ checked_uris = 4
    /\ failed_uris = 3
    /\ get_calls = 1


(***************************************************************************)
(* The outcome of a session does not depend on the order in which the      *)
(* concurrent checks complete (SpecFixed).                                 *)
(***************************************************************************)
\* the result of every check of uri on the web of SpecFixed
FixedResult(uri) ==
    LET head == HeadFixed(uri)
    IN  IF ~IsRaised(head) /\ head.status_code \in {405, 501}
        THEN ResultOf(GetFixed(uri))
        ELSE ResultOf(head)

\* the checks of the http(s) URIs of a record, in the order of extraction
ChecksOf(r) ==
    LET uris == extract_uris_from_data(r.data)
        tasks_of_r == [i \in 1..Len(uris) |->
                          NewTask(uris[i], r.resource_type, IdOf(r.data))]
    IN  SelectSeq(tasks_of_r, LAMBDA t : t.uri.scheme \in {"http", "https"})

\* the Errors of a record when its URIs are checked one after the other,
\* in the order of extraction
SequentialErrors(r) ==
    LET id == IdOf(r.data)
        checks == ChecksOf(r)
    IN  IF Accepted(r)
        THEN validate_vocabularies(r.data, r.resource_type, id)
             \o (IF r.resource_type = "Item"
                 THEN item_additional_errors(r.data, id)
                 ELSE media_additional_errors(r.data, id))
             \o Flatten([i \in 1..Len(checks) |->
                    ResultErrors(checks[i], FixedResult(checks[i].uri),
                                 uri_check_severity, check_redirects)])
        ELSE SchemaErrors(model_validate(FieldsOf(r.resource_type), r.data),
                          r.resource_type, id)

\* the Warnings of a record when its URIs are checked one after the other
SequentialWarnings(r) ==
    LET id == IdOf(r.data)
        checks == ChecksOf(r)
    IN  IF Accepted(r)
        THEN (IF r.resource_type = "Item"
              THEN item_additional_warnings(r.data, id)
              ELSE media_additional_warnings(r.data, id))
             \o check_literal_fields_for_urls(r.data, r.resource_type, id)
             \o Flatten([i \in 1..Len(checks) |->
                    ResultWarnings(checks[i], FixedResult(checks[i].uri),
                                   uri_check_severity, check_redirects)])
        ELSE <<>>

\* the number of failed checks of a record
FailedCount(r) ==
    IF Accepted(r)
    THEN Cardinality({i \in 1..Len(ChecksOf(r)) :
             \/ FixedResult(ChecksOf(r)[i].uri).status = -1
             \/ FixedResult(ChecksOf(r)[i].uri).status >= 400})
    ELSE 0

RECURSIVE FailedTotal(_)
FailedTotal(records) ==
    IF records = <<>> THEN 0
    ELSE FailedCount(Head(records)) + FailedTotal(Tail(records))

\* two lists hold the same elements the same number of times
SameMultiset(a, b) ==
    /\ Len(a) = Len(b)
    /\ \A j \in 1..Len(a) :
           Cardinality({k \in 1..Len(a) : a[k] = a[j]})
               = Cardinality({k \in 1..Len(b) : b[k] = a[j]})

\* C30: on a transport that returns a fixed result for each URI, the
\* outcome of a session is determined by its records and its options,
\* whatever the order in which the concurrent checks of a record complete:
\* whenever the session is between two records, its Errors and its
\* Warnings are, as multisets, those of checking the URIs of each record
\* one after the other, and validated_items, validated_media, checked_uris
\* and failed_uris have the values of that sequential run.
C30_OutcomeIndependentOfCompletionOrder ==
    tasks = <<>> =>
        /\ SameMultiset(errors,
               Flatten([k \in 1..Len(calls.records) |->
                           SequentialErrors(calls.records[k])]))
        /\ SameMultiset(warnings,
               Flatten([k \in 1..Len(calls.records) |->
                           SequentialWarnings(calls.records[k])]))
        /\ validated_items
               = Cardinality({k \in 1..Len(calls.records) :
                                 /\ calls.records[k].resource_type = "Item"
                                 /\ Accepted(calls.records[k])})
        /\ validated_media
               = Cardinality({k \in 1..Len(calls.records) :
                                 /\ calls.records[k].resource_type = "Media"
                                 /\ Accepted(calls.records[k])})
        /\ checked_uris = HttpTotal(calls.records)
        /\ failed_uris = FailedTotal(calls.records)

\* under severity "error", the checks of Item 4 completed in the reverse
\* of their order of extraction: the Error of the connection failure
\* stands before the Error of the 404
C30_Witness ==
    /\ uri_check_severity = "error"
    /\ tasks = <<>>
    /\ calls.validate = 1
    /\ calls.records[1].data.o_id = 4
    /\ Len(errors) = 2
    /\ errors[1].error.kind = "URI check failed"
    /\ errors[2].error.kind = "URI returned HTTP"
    /\ errors[1].field = <<"dcterms:relation", "1", "@id">>
    /\ checked_uris = 2
    /\ failed_uris = 2

=============================================================================
